---- MODULE Spec2Model ----
(***************************************************************************)
(* Time-tracking screen of the attendance client (TimeTracking component   *)
(* and the useBiometricAuth hook): geofence state, session state, the      *)
(* time-in / time-out handlers and the record fetches, as a state machine. *)
(* A handler is a sequence of steps separated by its awaits; it reads the  *)
(* component state of the render it was created in (its closure).          *)
(***************************************************************************)
EXTENDS Integers, Sequences, FiniteSets, TLC

\* null / undefined of the record-valued state (a location, an office, a
\* time record, a prompt); NoDistance is the null of the distance state.
Null == [null |-> TRUE]
NoDistance == -1

\* ---------------------------------------------------------------- bounds
\* Fetches of the records in flight, presses on the screen in a run, handler
\* invocations (and offset-form presses) in a run of the handlers called
\* directly, position / office requests in flight, watch subscriptions held by
\* the platform, handler calls in progress, and the last hour the clock reaches.
MaxFetches == 2
MaxPresses == 3
MaxInvocations == 2
MaxRequests == 2
MaxWatches == 2
MaxCalls == 2
LastHour == 12

\* ------------------------------------------------------------- constants
NoonHour == 12
AccuracyLimit == 30
DefaultRadius == 100

Sessions == {"AM", "PM"}
\* The hours at which the screen may be opened: the last of the morning, noon.
StartHours == {NoonHour - 1, NoonHour}
InitialSession == "AM"
Yesterday == 0
Today == 1

\* Positions are steps of 0.00045 degrees north of the registered office.
LatSteps == {1, 3}
Accuracies == {10, 30}

ServerOffice == [_id |-> "office", radius |-> 100]
DefaultOffice == [_id |-> "default_office_id", radius |-> DefaultRadius]

\* ------------------------------------------------------------ prompts
TimeInPrompt == <<"Authenticate", "to", "time", "in">>
TimeOutPrompt == <<"Authenticate", "to", "time", "out">>
DefaultPrompt == <<"Authenticate", "to", "continue">>
EnrollPrompt == <<"Scan", "your", "fingerprint", "to", "add", "it", "to", "your", "account">>
Prompts == {TimeInPrompt, TimeOutPrompt, DefaultPrompt, EnrollPrompt}

includes(s, sub) ==
  \E i \in 1..(Len(s) - Len(sub) + 1) : SubSeq(s, i, i + Len(sub) - 1) = sub

\* ------------------------------------------------------------ records
\* A date string of the offset form: '' (NoDate), a YYYY-MM-DD string of a
\* day, or a string of another format.
DateString(format, day) == [format |-> format, day |-> day]
NoDate == DateString("", 0)

\* formatRecordDate: the YYYY-MM-DD string of the local day of a record date.
formatRecordDate(date) == DateString("YYYY-MM-DD", date)

TimeRecord(day, am, amOut, pm, pmOut, leg, legOut) ==
  [_id |-> day, date |-> day,
   amTimeIn |-> am, amTimeOut |-> amOut,
   pmTimeIn |-> pm, pmTimeOut |-> pmOut,
   timeIn |-> leg, timeOut |-> legOut,
   undertime |-> 0, makeup |-> 0, makeupDate |-> NoDate]

NewRecord == TimeRecord(Today, FALSE, FALSE, FALSE, FALSE, FALSE, FALSE)
YesterdayRecord == TimeRecord(Yesterday, TRUE, TRUE, TRUE, TRUE, FALSE, FALSE)

\* Predicate of the find() calls: a record open for the AM / PM session.
isActiveAM(record) ==
  (record.amTimeIn /\ ~record.amTimeOut) \/ (record.timeIn /\ ~record.timeOut)

isActivePM(record) ==
  (record.pmTimeIn /\ ~record.pmTimeOut) \/ (record.timeIn /\ ~record.timeOut)

isActiveFor(record, session) ==
  IF session = "AM" THEN isActiveAM(record) ELSE isActivePM(record)

isTodayRecord(record) == record.date = Today

\* Array.prototype.find: the first of the elements that satisfy the predicate
\* (`matching`, in the order of the array), else null.
find(matching) == IF matching = <<>> THEN Null ELSE Head(matching)

\* sortedRecords: [...response.data].sort((a, b) => b.date - a.date), a
\* stable insertion sort, newest date first.
RECURSIVE insertByDate(_, _)
insertByDate(record, sorted) ==
  IF sorted = <<>> THEN <<record>>
  ELSE IF Head(sorted).date < record.date THEN <<record>> \o sorted
  ELSE <<Head(sorted)>> \o insertByDate(record, Tail(sorted))

RECURSIVE sortByDateDesc(_)
sortByDateDesc(records) ==
  IF records = <<>> THEN <<>>
  ELSE insertByDate(records[Len(records)], sortByDateDesc(SubSeq(records, 1, Len(records) - 1)))

\* ----------------------------------------------------------- geofence
\* Math.round(R * c) of the Haversine formula, tabulated for the positions
\* of LatSteps (k * 0.00045 degrees north of (18.2058, 120.5910)) against
\* the registered office and against the default office.
haversineMeters(office, location) ==
  IF office._id = "office"
  THEN CASE location.lat = 0 -> 0   [] location.lat = 1 -> 50
         [] location.lat = 2 -> 100 [] location.lat = 3 -> 150
  ELSE CASE location.lat = 0 -> 7   [] location.lat = 1 -> 44
         [] location.lat = 2 -> 94  [] location.lat = 3 -> 144

\* checkOfficeRange with a strict comparison against the radius.
checkOfficeRange_Strict(office, location, before) ==
  IF office = Null \/ location = Null THEN before
  ELSE <<haversineMeters(office, location),
         haversineMeters(office, location) < office.radius>>

\* checkOfficeRange as run by a closure that holds `office`: the pair
\* <<distance, isWithinRange>> it leaves, given the pair before the call.
checkOfficeRange(office, location, before) ==
  IF office = Null \/ location = Null THEN before
  ELSE <<haversineMeters(office, location),
         haversineMeters(office, location) <= office.radius>>

Locations == [lat : LatSteps, accuracy : Accuracies]

\* ----------------------------------------------------------- variables
VARIABLES
  loading, refreshing, locationPermission, currentLocation, officeLocation,
  timeRecords, activeSession, activeTimeRecord, isWithinRange, distance,
  currentTime, showAMDropdown, showPMDropdown, offsetForm,
  biometricStatus, bioLoading, toast,
  now, server, token,
  loadData, locReqs, officeReqs, watch, fetches,
  prompt, calls, lastCall,
  presses

vars == <<loading, refreshing, locationPermission, currentLocation, officeLocation,
          timeRecords, activeSession, activeTimeRecord, isWithinRange, distance,
          currentTime, showAMDropdown, showPMDropdown, offsetForm,
          biometricStatus, bioLoading, toast,
          now, server, token,
          loadData, locReqs, officeReqs, watch, fetches,
          prompt, calls, lastCall,
          presses>>

geoVars == <<locationPermission, currentLocation, officeLocation, isWithinRange,
             distance, locReqs, officeReqs, watch>>
sessionVars == <<timeRecords, activeSession, activeTimeRecord>>
dropdownVars == <<showAMDropdown, showPMDropdown>>
envVars == <<now, server, token>>
bioVars == <<biometricStatus, bioLoading>>
callVars == <<prompt, calls>>

Message(text, args) == [text |-> text, args |-> args]

RemoveAt(seq, i) == SubSeq(seq, 1, i - 1) \o SubSeq(seq, i + 1, Len(seq))

NoMessage == Message("", <<>>)

\* A call of handleTimeIn / handleTimeOut: where it stands (pc), the values its
\* closure holds (location, session, record), and what it has done so far: the
\* checks it evaluated, in order, the way authenticate ended, the requests it
\* sent, the message it surfaced and how it returned (out).
NewCall(kind, id) ==
  [kind |-> kind, id |-> id, pc |-> "idle",
   promptMessage |-> IF kind = "timeIn" THEN TimeInPrompt ELSE TimeOutPrompt,
   forceAuth |-> TRUE,
   location |-> currentLocation, session |-> activeSession, record |-> activeTimeRecord,
   withinRange |-> isWithinRange, status |-> biometricStatus,
   checks |-> <<>>, auth |-> "none", posts |-> 0, gets |-> 0,
   request |-> Null, error |-> "", message |-> NoMessage, out |-> "none"]

\* toast is the message surfaced by the step just taken and lastCall the
\* handler call that returned in it: NoMessage and NoCall after any other step.
NoCall ==
  [kind |-> "none", id |-> 0, pc |-> "idle",
   promptMessage |-> DefaultPrompt, forceAuth |-> FALSE,
   location |-> Null, session |-> InitialSession, record |-> Null,
   withinRange |-> FALSE,
   status |-> [available |-> FALSE, enrolled |-> FALSE, enabled |-> FALSE],
   checks |-> <<>>, auth |-> "none", posts |-> 0, gets |-> 0,
   request |-> Null, error |-> "", message |-> NoMessage, out |-> "none"]

quiet == toast' = NoMessage /\ lastCall' = NoCall

\* ---------------------------------------------- location tracking effect
\* A call of getCurrentLocation by `owner`, from a closure whose officeLocation
\* is `office`: the accuracy of the position request in flight and the number
\* of position requests it has made.
LocationRequest(office, owner) ==
  [office |-> office, owner |-> owner, accuracy |-> "High", requests |-> 1]

\* getCurrentLocation that gives up when its first position request fails.
getCurrentLocationCaught_NoRetry(request) == Null

\* The catch block of getCurrentLocation, entered when the position request in
\* flight failed (or, for the first, did not answer within 10 seconds): the
\* first failure is followed by one request at Balanced accuracy, the failure
\* of that one ends the call (Null: the message is shown, null is returned).
getCurrentLocationCaught(request) ==
  IF request.accuracy = "High"
  THEN [request EXCEPT !.accuracy = "Balanced", !.requests = @ + 1]
  ELSE Null

\* A call of Location.watchPositionAsync by a run of the tracking effect whose
\* closure holds `office` and `location`: subscribed once the call has
\* resolved and locationSubscription is assigned, cleaned once the cleanup of
\* that run has been executed.
Subscription(office, location) ==
  [office |-> office, location |-> location, subscribed |-> FALSE, cleaned |-> FALSE]

\* The cleanup of the previous run of the effect: locationSubscription.remove()
\* if the subscription has been assigned, nothing otherwise.
RECURSIVE cleanedUp(_)
cleanedUp(subscriptions) ==
  IF subscriptions = <<>> THEN <<>>
  ELSE LET first == Head(subscriptions)
       IN IF first.subscribed /\ ~first.cleaned THEN cleanedUp(Tail(subscriptions))
          ELSE <<[first EXCEPT !.cleaned = TRUE]>> \o cleanedUp(Tail(subscriptions))

\* useEffect(..., [locationPermission, officeLocation]): run after a render in
\* which a dependency changed. The cleanup of the previous run is executed and,
\* with permission, getCurrentLocation() is called, fetchOfficeLocation() is
\* called when no office is known, and a new watch is asked for. perm, office
\* and location are the values of the new render; lr and oq the pending requests.
trackingEffect(perm, office, location, lr, oq) ==
  IF ~perm
  THEN /\ watch' = cleanedUp(watch)
       /\ locReqs' = lr
       /\ officeReqs' = oq
  ELSE /\ watch' = Append(cleanedUp(watch), Subscription(office, location))
       /\ locReqs' = Append(lr, LocationRequest(office, "effect"))
       /\ officeReqs' = IF office = Null /\ token
                        THEN Append(oq, [office |-> office, location |-> location,
                                         owner |-> "effect"])
                        ELSE oq

\* fetchTimeRecords() called by `owner` from a closure whose activeSession is
\* `session`: without a token it returns at once (its finally block clears
\* loading and refreshing), else the GET is sent.
fetchIssued(fs, session, owner) ==
  IF token THEN Append(fs, [session |-> session, owner |-> owner, caller |-> 0, status |-> "pending", data |-> <<>>])
  ELSE fs

\* requestLocationPermission() awaited by loadData.
RequestLocationPermission(granted) ==
  /\ loadData = "permission"
  /\ IF granted
     THEN /\ locationPermission' = TRUE
          /\ trackingEffect(TRUE, officeLocation, currentLocation,
                            Append(locReqs, LocationRequest(Null, "load")),
                            officeReqs)
          /\ loadData' = "location"
          /\ UNCHANGED <<loading, fetches>>
     ELSE /\ UNCHANGED <<locationPermission, watch, locReqs>>
          /\ IF token
             THEN /\ officeReqs' = Append(officeReqs, [office |-> Null, location |-> Null,
                                                       owner |-> "load"])
                  /\ loadData' = "office"
                  /\ UNCHANGED loading
             ELSE /\ officeReqs' = officeReqs
                  /\ loadData' = "done"
                  /\ loading' = FALSE
          /\ UNCHANGED fetches
  /\ toast' = IF granted THEN NoMessage
               ELSE Message("You need to grant location permission", <<>>)
  /\ lastCall' = NoCall
  /\ UNCHANGED <<refreshing, currentLocation, officeLocation, isWithinRange, distance,
                 sessionVars, currentTime, dropdownVars, offsetForm, bioVars,
                 envVars, callVars, presses>>

\* getCurrentLocation(): the position request in flight answers with `result`,
\* a position, or Null when it failed (for the first request: or did not
\* answer within 10 seconds).
GetCurrentLocationResolves(i, result) ==
  /\ i \in 1..Len(locReqs)
  /\ LET r == locReqs[i]
         range == checkOfficeRange(r.office, result, <<distance, isWithinRange>>)
         retried == getCurrentLocationCaught(r)
     IN IF result = Null /\ retried # Null
        THEN /\ locReqs' = [locReqs EXCEPT ![i] = retried]
             /\ toast' = NoMessage
             /\ UNCHANGED <<currentLocation, distance, isWithinRange, officeReqs,
                            loadData, loading>>
        ELSE /\ locReqs' = RemoveAt(locReqs, i)
             /\ IF result # Null
                THEN /\ currentLocation' = result
                     /\ distance' = range[1]
                     /\ isWithinRange' = range[2]
                ELSE UNCHANGED <<currentLocation, distance, isWithinRange>>
             /\ IF r.owner = "load"
                THEN IF token
                     THEN /\ officeReqs' = Append(officeReqs, [office |-> Null, location |-> Null,
                                                               owner |-> "load"])
                          /\ loadData' = "office"
                          /\ UNCHANGED loading
                     ELSE /\ officeReqs' = officeReqs
                          /\ loadData' = "done"
                          /\ loading' = FALSE
                ELSE UNCHANGED <<officeReqs, loadData, loading>>
             /\ toast' = IF result # Null THEN NoMessage
                         ELSE Message("Unable to get your current location. Please check your device settings and ensure location services are enabled.", <<>>)
  /\ lastCall' = NoCall
  /\ UNCHANGED <<refreshing, locationPermission, officeLocation, watch, fetches,
                 sessionVars, currentTime, dropdownVars, offsetForm, bioVars,
                 envVars, callVars, presses>>

\* fetchOfficeLocation(): the GET of /api/office-location answers (ok) or fails.
FetchOfficeLocationResolves(i, ok) ==
  /\ i \in 1..Len(officeReqs)
  /\ Len(locReqs) < MaxRequests
  /\ Len(cleanedUp(watch)) < MaxWatches
  /\ LET q == officeReqs[i]
         office == IF ok THEN ServerOffice ELSE DefaultOffice
         range == IF ~ok THEN <<distance, FALSE>>
                  ELSE IF q.location # Null
                       THEN checkOfficeRange(q.office, q.location, <<distance, isWithinRange>>)
                       ELSE <<NoDistance, FALSE>>
     IN /\ officeLocation' = office
        /\ distance' = range[1]
        /\ isWithinRange' = range[2]
        /\ trackingEffect(locationPermission, office, currentLocation, locReqs,
                          RemoveAt(officeReqs, i))
        /\ IF q.owner = "load"
           THEN /\ fetches' = fetchIssued(fetches, "AM", "load")
                /\ loadData' = IF token THEN "records" ELSE "done"
                /\ loading' = IF token THEN loading ELSE FALSE
           ELSE UNCHANGED <<fetches, loadData, loading>>
  /\ quiet
  /\ UNCHANGED <<refreshing, locationPermission, currentLocation,
                 sessionVars, currentTime, dropdownVars, offsetForm, bioVars,
                 envVars, callVars, presses>>

\* Location.watchPositionAsync resolves: locationSubscription is assigned in
\* the closure of the run that asked for it, whether or not the cleanup of that
\* run has been executed meanwhile.
WatchSubscribed(i) ==
  /\ i \in 1..Len(watch)
  /\ ~watch[i].subscribed
  /\ watch' = [watch EXCEPT ![i].subscribed = TRUE]
  /\ quiet
  /\ UNCHANGED <<loading, refreshing, locationPermission, currentLocation, officeLocation,
                 isWithinRange, distance, locReqs, officeReqs,
                 fetches, loadData, sessionVars, currentTime, dropdownVars, offsetForm,
                 bioVars, envVars, callVars, presses>>

\* Callback of Location.watchPositionAsync, delivered a position by the
\* subscription i.
WatchPosition(i, location) ==
  /\ i \in 1..Len(watch)
  /\ watch[i].subscribed
  /\ IF location.accuracy # 0 /\ location.accuracy < AccuracyLimit
     THEN /\ currentLocation' = location
          /\ IF watch[i].office # Null
             THEN /\ distance' = checkOfficeRange(watch[i].office, location,
                                                  <<distance, isWithinRange>>)[1]
                  /\ isWithinRange' = checkOfficeRange(watch[i].office, location,
                                                       <<distance, isWithinRange>>)[2]
                  /\ UNCHANGED officeReqs
             ELSE /\ Len(officeReqs) < MaxRequests
                  /\ officeReqs' = IF token
                                   THEN Append(officeReqs, [office |-> watch[i].office,
                                                            location |-> watch[i].location,
                                                            owner |-> "watch"])
                                   ELSE officeReqs
                  /\ UNCHANGED <<distance, isWithinRange>>
     ELSE UNCHANGED <<currentLocation, distance, isWithinRange, officeReqs>>
  /\ quiet
  /\ UNCHANGED <<loading, refreshing, locationPermission, officeLocation, locReqs, watch,
                 fetches, loadData, sessionVars, currentTime, dropdownVars, offsetForm,
                 bioVars, envVars, callVars, presses>>

\* ------------------------------------------------------ fetchTimeRecords
\* The session-resolution part of fetchTimeRecords, run by a closure whose
\* activeSession is `session`, on the sorted records of the response at
\* hour `hour`: <<activeTimeRecord, activeSession>> it leaves, given the
\* activeSession of the state (`current`) it does not always overwrite.
resolveActive(session, sortedRecords, hour, current) ==
  LET todayRecords == SelectSeq(sortedRecords, isTodayRecord)
      activeAMRecord == find(SelectSeq(todayRecords, isActiveAM))
      activePMRecord == find(SelectSeq(todayRecords, isActivePM))
  IN IF session = "AM" /\ activeAMRecord # Null THEN <<activeAMRecord, current>>
     ELSE IF session = "PM" /\ activePMRecord # Null THEN <<activePMRecord, current>>
     ELSE IF activeAMRecord # Null THEN <<activeAMRecord, "AM">>
     ELSE IF activePMRecord # Null THEN <<activePMRecord, "PM">>
     ELSE <<Null, IF hour < NoonHour THEN "AM" ELSE "PM">>

\* The Time Record Service answers GET /api/time-records, or the request fails.
TimeRecordsAnswered(i, ok) ==
  /\ i \in 1..Len(fetches)
  /\ fetches[i].status = "pending"
  /\ fetches' = [fetches EXCEPT ![i].status = IF ok THEN "ok" ELSE "failed",
                                ![i].data = IF ok THEN server ELSE <<>>]
  /\ quiet
  /\ UNCHANGED <<loading, refreshing, geoVars, sessionVars, currentTime, dropdownVars, offsetForm,
                 bioVars, envVars, loadData, callVars, presses>>

\* fetchTimeRecords clearing loading and refreshing at the end of its try
\* block, not in a finally block.
FetchTimeRecordsResumes_NoFinally(i) ==
  /\ i \in 1..Len(fetches)
  /\ fetches[i].status # "pending"
  /\ LET f == fetches[i]
         sortedRecords == sortByDateDesc(f.data)
         resolved == resolveActive(f.session, sortedRecords, now, activeSession)
         awaiting == {k \in 1..Len(calls) : f.owner = "timeIn" /\ calls[k].id = f.caller}
     IN /\ fetches' = RemoveAt(fetches, i)
        /\ IF f.status = "ok"
           THEN /\ timeRecords' = sortedRecords
                /\ activeTimeRecord' = resolved[1]
                /\ activeSession' = resolved[2]
           ELSE /\ timeRecords' = <<>>
                /\ UNCHANGED <<activeTimeRecord, activeSession>>
        /\ loading' = IF f.status = "ok" THEN FALSE ELSE loading
        /\ refreshing' = IF f.status = "ok" THEN FALSE ELSE refreshing
        /\ loadData' = IF f.owner = "load" THEN "done" ELSE loadData
        /\ IF awaiting # {}
           THEN LET k == CHOOSE k \in awaiting : TRUE
                IN /\ calls' = RemoveAt(calls, k)
                   /\ lastCall' = [calls[k] EXCEPT !.pc = "idle", !.out = "ok"]
           ELSE calls' = calls /\ lastCall' = NoCall
        /\ toast' = IF f.status = "ok" THEN NoMessage
                     ELSE Message("Failed to fetch time records. Please check your connection or try again.", <<>>)
  /\ UNCHANGED <<geoVars, currentTime, dropdownVars, offsetForm, bioVars, envVars, prompt, presses>>

\* fetchTimeRecords resumes with the response (try / catch / finally), and so
\* does the caller that awaited it: loadData, or the handleTimeIn call whose
\* finally block then runs.
FetchTimeRecordsResumes(i) ==
  /\ i \in 1..Len(fetches)
  /\ fetches[i].status # "pending"
  /\ LET f == fetches[i]
         sortedRecords == sortByDateDesc(f.data)
         resolved == resolveActive(f.session, sortedRecords, now, activeSession)
         awaiting == {k \in 1..Len(calls) : f.owner = "timeIn" /\ calls[k].id = f.caller}
     IN /\ fetches' = RemoveAt(fetches, i)
        /\ IF f.status = "ok"
           THEN /\ timeRecords' = sortedRecords
                /\ activeTimeRecord' = resolved[1]
                /\ activeSession' = resolved[2]
           ELSE /\ timeRecords' = <<>>
                /\ UNCHANGED <<activeTimeRecord, activeSession>>
        /\ loading' = FALSE
        /\ refreshing' = FALSE
        /\ loadData' = IF f.owner = "load" THEN "done" ELSE loadData
        /\ IF awaiting # {}
           THEN LET k == CHOOSE k \in awaiting : TRUE
                IN /\ calls' = RemoveAt(calls, k)
                   /\ lastCall' = [calls[k] EXCEPT !.pc = "idle", !.out = "ok"]
           ELSE calls' = calls /\ lastCall' = NoCall
        /\ toast' = IF f.status = "ok" THEN NoMessage
                     ELSE Message("Failed to fetch time records. Please check your connection or try again.", <<>>)
  /\ UNCHANGED <<geoVars, currentTime, dropdownVars, offsetForm, bioVars, envVars, prompt, presses>>

\* onRefresh = useCallback(..., []): the function of the first render, whose
\* fetchTimeRecords closes over the initial activeSession.
OnRefresh ==
  /\ ~refreshing
  /\ prompt = Null
  /\ presses < MaxPresses
  /\ Len(fetches) < MaxFetches
  /\ presses' = presses + 1
  /\ fetches' = fetchIssued(fetches, InitialSession, "refresh")
  /\ refreshing' = token
  /\ loading' = IF token THEN loading ELSE FALSE
  /\ quiet
  /\ UNCHANGED <<geoVars, sessionVars, currentTime, dropdownVars, offsetForm, bioVars,
                 envVars, loadData, callVars>>

\* ------------------------------------------------------------- the clock
ClockAdvances ==
  /\ now < LastHour
  /\ now' = now + 1
  /\ quiet
  /\ UNCHANGED <<loading, refreshing, geoVars, sessionVars, currentTime, dropdownVars, offsetForm,
                 bioVars, server, token, loadData, fetches, callVars, presses>>

\* setInterval(() => setCurrentTime(new Date()), 1000)
TimerTick ==
  /\ currentTime # now
  /\ currentTime' = now
  /\ quiet
  /\ UNCHANGED <<loading, refreshing, geoVars, sessionVars, dropdownVars, offsetForm,
                 bioVars, envVars, loadData, fetches, callVars, presses>>

\* ------------------------------------------------------- session buttons
\* A session button disabled by the hour alone.
sessionDisabled_ByHourOnly(session) ==
  IF session = "AM" THEN ~(currentTime < NoonHour) ELSE ~(currentTime >= NoonHour)

hasActive(session) ==
  \E i \in 1..Len(timeRecords) :
     isTodayRecord(timeRecords[i]) /\ isActiveFor(timeRecords[i], session)

sessionDisabled(session) ==
  IF session = "AM"
  THEN ~(currentTime < NoonHour) /\ ~hasActive("AM")
  ELSE ~(currentTime >= NoonHour) /\ ~hasActive("PM")

\* onPress of the AM (PM) session button.
PressSession(session) ==
  /\ ~sessionDisabled(session)
  /\ prompt = Null
  /\ presses < MaxPresses
  /\ presses' = presses + 1
  /\ activeSession' = session
  /\ showAMDropdown' = IF session = "AM" THEN ~showAMDropdown ELSE FALSE
  /\ showPMDropdown' = IF session = "PM" THEN ~showPMDropdown ELSE FALSE
  /\ activeTimeRecord' =
        find(SelectSeq(timeRecords, LAMBDA r : isTodayRecord(r) /\ isActiveFor(r, session)))
  /\ quiet
  /\ UNCHANGED <<loading, refreshing, geoVars, timeRecords, currentTime, offsetForm,
                 bioVars, envVars, loadData, fetches, callVars>>

\* closeAllDropdowns, on a press outside the buttons.
CloseAllDropdowns ==
  /\ showAMDropdown \/ showPMDropdown
  /\ prompt = Null
  /\ presses < MaxPresses
  /\ presses' = presses + 1
  /\ showAMDropdown' = FALSE
  /\ showPMDropdown' = FALSE
  /\ quiet
  /\ UNCHANGED <<loading, refreshing, geoVars, sessionVars, currentTime, offsetForm,
                 bioVars, envVars, loadData, fetches, callVars>>

\* --------------------------------------------------- useBiometricAuth
\* checkBiometricStatus(), run once on mount: hasHardwareAsync, isEnrolledAsync
\* (only asked when compatible) and the enabled preference.
CheckBiometricStatusResolves(compatible, enrolled, enabled) ==
  /\ bioLoading
  /\ bioLoading' = FALSE
  /\ biometricStatus' = [available |-> compatible,
                         enrolled |-> IF compatible THEN enrolled ELSE FALSE,
                         enabled |-> enabled]
  /\ quiet
  /\ UNCHANGED <<loading, refreshing, geoVars, sessionVars, currentTime, dropdownVars, offsetForm,
                 envVars, loadData, fetches, callVars, presses>>

isTimeTrackingOperation(promptMessage) ==
  includes(promptMessage, <<"time", "in">>) \/ includes(promptMessage, <<"time", "out">>)

\* authenticate with the preference deciding alone: neither forceAuth nor a
\* time-tracking prompt overrides a disabled preference.
authenticate_PreferenceOnly(status, promptMessage, forceAuth) ==
  IF ~status.available \/ ~status.enrolled THEN "false"
  ELSE IF ~status.enabled THEN "true"
       ELSE "platform"

\* authenticate(promptMessage, forceAuth) up to its platform call: "false" and
\* "true" are returned without asking the platform, "platform" asks it.
authenticate(status, promptMessage, forceAuth) ==
  IF ~status.available \/ ~status.enrolled THEN "false"
  ELSE IF ~status.enabled /\ ~isTimeTrackingOperation(promptMessage) /\ ~forceAuth
       THEN "true"
       ELSE "platform"

\* Options that leave the device passcode as a fallback.
authenticateAsyncOptions_DeviceFallback(promptMessage) ==
  [promptMessage |-> promptMessage, fallbackLabel |-> "Use passcode",
   disableDeviceFallback |-> FALSE]

\* The options authenticate passes to LocalAuthentication.authenticateAsync.
authenticateAsyncOptions(promptMessage) ==
  [promptMessage |-> promptMessage, fallbackLabel |-> "",
   disableDeviceFallback |-> TRUE]

\* What the platform can answer to a prompt: the biometric matched, the device
\* passcode was entered (offered only when fallback is allowed), the user failed
\* or cancelled, or the call threw.
PlatformResults(options) ==
  {"biometric", "failure", "error"} \cup
     (IF options.disableDeviceFallback THEN {} ELSE {"passcode"})

\* The boolean authenticate returns: true when the preference let the action
\* pass without a prompt ("skipped"), false without hardware or enrolment
\* ("refused"), else result.success, and false from the catch block.
authenticated(result) == result \in {"biometric", "passcode", "skipped"}

\* authenticate called on its own (as the biometrics settings screen does):
\* the call up to the platform prompt, and its return.
authenticateReturns(call, result) ==
  [call EXCEPT !.pc = "idle", !.auth = result,
               !.out = IF authenticated(result) THEN "true" ELSE "false"]

authenticateCalled(id, promptMessage, forceAuth) ==
  LET call == [NewCall("authenticate", id) EXCEPT !.promptMessage = promptMessage,
                                                    !.forceAuth = forceAuth,
                                                    !.checks = <<"authenticate">>]
      gate == authenticate(biometricStatus, promptMessage, forceAuth)
  IN IF gate = "platform" THEN [call EXCEPT !.pc = "auth"]
     ELSE IF gate = "true" THEN authenticateReturns(call, "skipped")
     ELSE authenticateReturns(call, "refused")

\* ---------------------------------------------------------- handleTimeIn
\* The fallback text shown whatever the response holds.
orElse_FallbackOnly(value, fallback) == fallback

orElse(value, fallback) == IF value = "" THEN fallback ELSE value

\* handleTimeIn after `await authenticate(...)`: the denial, the missing token
\* (router.replace, then finally), or the POST of /api/time-records/time-in.
timeInAfterAuth(call, result) ==
  IF ~authenticated(result)
  THEN [call EXCEPT !.pc = "idle", !.auth = result, !.out = "auth_failed",
          !.message = Message("Biometric authentication failed or was cancelled", <<>>)]
  ELSE IF ~token
  THEN [call EXCEPT !.pc = "idle", !.auth = result, !.out = "no_token"]
  ELSE [call EXCEPT !.pc = "post", !.auth = result, !.posts = @ + 1,
          !.request = [url |-> "time-in", id |-> 0,
                       coordinates |-> call.location.lat,
                       session |-> call.session,
                       biometricAuthenticated |-> TRUE]]

\* handleTimeIn with the biometric status tested before the geofence.
handleTimeIn_BiometricsFirst(id) ==
  LET call == NewCall("timeIn", id)
      gate == authenticate(biometricStatus, TimeInPrompt, TRUE)
  IN IF currentLocation = Null
     THEN [call EXCEPT !.checks = <<"location">>, !.out = "no_location",
             !.message = Message("Unable to get your current location", <<>>)]
     ELSE IF ~biometricStatus.available \/ ~biometricStatus.enrolled
     THEN [call EXCEPT !.checks = <<"location", "status">>, !.out = "not_set_up",
             !.message = Message("Biometric authentication is not set up on this device. Please enroll your fingerprint in device settings.",
                                 <<>>)]
     ELSE IF ~isWithinRange
     THEN [call EXCEPT !.checks = <<"location", "status", "geofence">>,
             !.out = "out_of_range",
             !.message = Message("You must be within office range to time in. You are currently ${distance} meters away from the office.",
                                 <<distance>>)]
     ELSE LET asked == [call EXCEPT !.checks = <<"location", "status", "geofence",
                                                 "authenticate">>]
          IN IF gate = "platform" THEN [asked EXCEPT !.pc = "auth"]
             ELSE IF gate = "true" THEN timeInAfterAuth(asked, "skipped")
             ELSE timeInAfterAuth(asked, "refused")

\* handleTimeIn without its own test of the biometric status: authenticate is
\* left to refuse.
handleTimeIn_StatusUnchecked(id) ==
  LET call == NewCall("timeIn", id)
      gate == authenticate(biometricStatus, TimeInPrompt, TRUE)
  IN IF currentLocation = Null
     THEN [call EXCEPT !.checks = <<"location">>, !.out = "no_location",
             !.message = Message("Unable to get your current location", <<>>)]
     ELSE IF ~isWithinRange
     THEN [call EXCEPT !.checks = <<"location", "geofence">>, !.out = "out_of_range",
             !.message = Message("You must be within office range to time in. You are currently ${distance} meters away from the office.",
                                 <<distance>>)]
     ELSE LET asked == [call EXCEPT !.checks = <<"location", "geofence", "status",
                                                 "authenticate">>]
          IN IF gate = "platform" THEN [asked EXCEPT !.pc = "auth"]
             ELSE IF gate = "true" THEN timeInAfterAuth(asked, "skipped")
             ELSE timeInAfterAuth(asked, "refused")

\* handleTimeIn from its call to its first await (or to its return), on the
\* state of the render it was created in.
handleTimeIn(id) ==
  LET call == NewCall("timeIn", id)
      gate == authenticate(biometricStatus, TimeInPrompt, TRUE)
  IN IF currentLocation = Null
     THEN [call EXCEPT !.checks = <<"location">>, !.out = "no_location",
             !.message = Message("Unable to get your current location", <<>>)]
     ELSE IF ~isWithinRange
     THEN [call EXCEPT !.checks = <<"location", "geofence">>, !.out = "out_of_range",
             !.message = Message("You must be within office range to time in. You are currently ${distance} meters away from the office.",
                                 <<distance>>)]
     ELSE IF ~biometricStatus.available \/ ~biometricStatus.enrolled
     THEN [call EXCEPT !.checks = <<"location", "geofence", "status">>,
             !.out = "not_set_up",
             !.message = Message("Biometric authentication is not set up on this device. Please enroll your fingerprint in device settings.",
                                 <<>>)]
     ELSE LET asked == [call EXCEPT !.checks = <<"location", "geofence", "status",
                                                 "authenticate">>]
          IN IF gate = "platform" THEN [asked EXCEPT !.pc = "auth"]
             ELSE IF gate = "true" THEN timeInAfterAuth(asked, "skipped")
             ELSE timeInAfterAuth(asked, "refused")

\* --------------------------------------------------------- handleTimeOut
timeOutAfterAuth(call, result) ==
  IF ~authenticated(result)
  THEN [call EXCEPT !.pc = "idle", !.auth = result, !.out = "auth_failed",
          !.message = Message("Biometric authentication failed or was cancelled", <<>>)]
  ELSE IF ~token
  THEN [call EXCEPT !.pc = "idle", !.auth = result, !.out = "no_token"]
  ELSE [call EXCEPT !.pc = "post", !.auth = result, !.posts = @ + 1,
          !.request = [url |-> "time-out", id |-> call.record._id,
                       coordinates |-> call.location.lat,
                       session |-> call.session,
                       biometricAuthenticated |-> TRUE]]

handleTimeOut(id) ==
  LET call == NewCall("timeOut", id)
      gate == authenticate(biometricStatus, TimeOutPrompt, TRUE)
  IN IF activeTimeRecord = Null
     THEN [call EXCEPT !.checks = <<"record">>, !.out = "no_record",
             !.message = Message("No active time record found", <<>>)]
     ELSE IF currentLocation = Null
     THEN [call EXCEPT !.checks = <<"record", "location">>, !.out = "no_location",
             !.message = Message("Unable to get your current location", <<>>)]
     ELSE IF ~isWithinRange
     THEN [call EXCEPT !.checks = <<"record", "location", "geofence">>,
             !.out = "out_of_range",
             !.message = Message("You must be within office range to time out. You are currently ${distance} meters away from the office.",
                                 <<distance>>)]
     ELSE IF ~biometricStatus.available \/ ~biometricStatus.enrolled
     THEN [call EXCEPT !.checks = <<"record", "location", "geofence", "status">>,
             !.out = "not_set_up",
             !.message = Message("Biometric authentication is not set up on this device. Please enroll your fingerprint in device settings.",
                                 <<>>)]
     ELSE LET asked == [call EXCEPT !.checks = <<"record", "location", "geofence",
                                                 "status", "authenticate">>]
          IN IF gate = "platform" THEN [asked EXCEPT !.pc = "auth"]
             ELSE IF gate = "true" THEN timeOutAfterAuth(asked, "skipped")
             ELSE timeOutAfterAuth(asked, "refused")

\* ------------------------------------------------- Time Record Service
todayIndex(records) ==
  IF \E i \in 1..Len(records) : records[i].date = Today
  THEN CHOOSE i \in 1..Len(records) : records[i].date = Today
  ELSE 0

indexOfId(records, id) ==
  IF \E i \in 1..Len(records) : records[i]._id = id
  THEN CHOOSE i \in 1..Len(records) : records[i]._id = id
  ELSE 0

\* The service accepts a time-in of a session that has none today, creating
\* today's record on the first one.
canTimeIn(records, session) ==
  IF todayIndex(records) = 0 THEN TRUE
  ELSE IF session = "AM" THEN ~records[todayIndex(records)].amTimeIn
  ELSE ~records[todayIndex(records)].pmTimeIn

timedIn(records, session) ==
  LET i == todayIndex(records)
      opened(r) == IF session = "AM" THEN [r EXCEPT !.amTimeIn = TRUE]
                                     ELSE [r EXCEPT !.pmTimeIn = TRUE]
  IN IF i = 0 THEN Append(records, opened(NewRecord))
     ELSE [records EXCEPT ![i] = opened(@)]

\* The service accepts a time-out of a record whose session is open.
canTimeOut(records, id, session) ==
  IF indexOfId(records, id) = 0 THEN FALSE
  ELSE isActiveFor(records[indexOfId(records, id)], session)

timedOut(records, id, session) ==
  LET closed(r) ==
        IF session = "AM" /\ r.amTimeIn /\ ~r.amTimeOut THEN [r EXCEPT !.amTimeOut = TRUE]
        ELSE IF session = "PM" /\ r.pmTimeIn /\ ~r.pmTimeOut THEN [r EXCEPT !.pmTimeOut = TRUE]
        ELSE [r EXCEPT !.timeOut = TRUE]
  IN [records EXCEPT ![indexOfId(records, id)] = closed(@)]

\* error.response?.data?.error of a failed request: "" when there is none.
ServerErrors == {"", "Request refused by the server"}

\* ------------------------------------------------------- steps of a call
\* The state left by a call that has run up to its next await, or returned.
callAdvanced(call, rest) ==
  /\ toast' = call.message
  /\ prompt' = IF call.pc = "auth" THEN authenticateAsyncOptions(call.promptMessage) ELSE Null
  /\ loading' = IF call.pc = "post" THEN TRUE
                ELSE IF call.out = "no_token" THEN FALSE
                ELSE loading
  /\ IF call.pc = "idle"
     THEN calls' = rest /\ lastCall' = call
     ELSE calls' = Append(rest, call) /\ lastCall' = NoCall

\* The platform prompt ends and the handler that awaits authenticate resumes.
AuthenticateResolves(result) ==
  /\ prompt # Null
  /\ result \in PlatformResults(prompt)
  /\ \E k \in 1..Len(calls) :
        /\ calls[k].pc = "auth"
        /\ callAdvanced(IF calls[k].kind = "timeIn"
                        THEN timeInAfterAuth(calls[k], result)
                        ELSE IF calls[k].kind = "timeOut"
                        THEN timeOutAfterAuth(calls[k], result)
                        ELSE authenticateReturns(calls[k], result),
                        RemoveAt(calls, k))
  /\ UNCHANGED <<refreshing, geoVars, sessionVars, currentTime, dropdownVars, offsetForm, bioVars,
                 envVars, loadData, fetches, presses>>

\* handleTimeIn ending on the accepted POST without fetching the records.
TimeInResponds_NoRefetch(k, ok, error) ==
  /\ k \in 1..Len(calls)
  /\ calls[k].kind = "timeIn"
  /\ calls[k].pc = "post"
  /\ IF ok
     THEN /\ canTimeIn(server, calls[k].session)
          /\ server' = timedIn(server, calls[k].session)
          /\ toast' = Message("Time-in recorded", <<>>)
          /\ lastCall' = [calls[k] EXCEPT !.pc = "idle", !.out = "ok",
                            !.message = Message("Time-in recorded", <<>>)]
     ELSE /\ toast' = Message(orElse(error, "Failed to record time-in"), <<>>)
          /\ lastCall' = [calls[k] EXCEPT !.pc = "idle", !.out = "failed", !.error = error,
                            !.message = Message(orElse(error, "Failed to record time-in"),
                                                <<>>)]
          /\ UNCHANGED server
  /\ loading' = FALSE
  /\ calls' = RemoveAt(calls, k)
  /\ UNCHANGED <<refreshing, geoVars, sessionVars, currentTime, dropdownVars, offsetForm,
                 bioVars, now, token, loadData, fetches, prompt, presses>>

\* The POST of time-in is answered: accepted (the handler shows the message
\* and awaits fetchTimeRecords), or failed with the service's error field, ""
\* when the request failed without a response.
TimeInResponds(k, ok, error) ==
  /\ k \in 1..Len(calls)
  /\ calls[k].kind = "timeIn"
  /\ calls[k].pc = "post"
  /\ IF ok
     THEN /\ canTimeIn(server, calls[k].session)
          /\ Len(fetches) < MaxFetches
          /\ server' = timedIn(server, calls[k].session)
          /\ fetches' = Append(fetches, [session |-> calls[k].session, owner |-> "timeIn",
                                         caller |-> calls[k].id, status |-> "pending",
                                         data |-> <<>>])
          /\ calls' = [calls EXCEPT ![k].pc = "refetch", ![k].gets = @ + 1,
                                    ![k].message = Message("Time-in recorded", <<>>)]
          /\ toast' = Message("Time-in recorded", <<>>)
          /\ lastCall' = NoCall
          /\ UNCHANGED loading
     ELSE /\ toast' = Message(orElse(error, "Failed to record time-in"), <<>>)
          /\ loading' = FALSE
          /\ calls' = RemoveAt(calls, k)
          /\ lastCall' = [calls[k] EXCEPT !.pc = "idle", !.out = "failed", !.error = error,
                            !.message = Message(orElse(error, "Failed to record time-in"),
                                                <<>>)]
          /\ UNCHANGED <<server, fetches>>
  /\ UNCHANGED <<refreshing, geoVars, sessionVars, currentTime, dropdownVars, offsetForm, bioVars,
                 now, token, loadData, prompt, presses>>

\* The POST of time-out is answered: accepted (message, setActiveTimeRecord(null),
\* fetchTimeRecords() not awaited, finally), or failed.
TimeOutResponds(k, ok, error) ==
  /\ k \in 1..Len(calls)
  /\ calls[k].kind = "timeOut"
  /\ calls[k].pc = "post"
  /\ IF ok
     THEN /\ canTimeOut(server, calls[k].request.id, calls[k].session)
          /\ Len(fetches) < MaxFetches
          /\ server' = timedOut(server, calls[k].request.id, calls[k].session)
          /\ toast' = Message("Time-out recorded", <<>>)
          /\ activeTimeRecord' = Null
          /\ fetches' = Append(fetches, [session |-> calls[k].session, owner |-> "timeOut",
                                         caller |-> calls[k].id, status |-> "pending",
                                         data |-> <<>>])
          /\ lastCall' = [calls[k] EXCEPT !.pc = "idle", !.out = "ok", !.gets = @ + 1,
                            !.message = Message("Time-out recorded", <<>>)]
     ELSE /\ toast' = Message(orElse(error, "Failed to record time-out"), <<>>)
          /\ lastCall' = [calls[k] EXCEPT !.pc = "idle", !.out = "failed", !.error = error,
                            !.message = Message(orElse(error, "Failed to record time-out"),
                                                <<>>)]
          /\ UNCHANGED <<server, fetches, activeTimeRecord>>
  /\ loading' = FALSE
  /\ calls' = RemoveAt(calls, k)
  /\ UNCHANGED <<refreshing, geoVars, timeRecords, activeSession, currentTime,
                 dropdownVars, offsetForm, bioVars, now, token, loadData, prompt, presses>>

\* ------------------------------------------------------------ offset form
\* The two CustomSlider instances of the offset modal, named by the state
\* their onValueChange sets. timeoutRef.current of an instance is the value
\* its pending timeout will report, NoTimeout when none is pending; sliding
\* tells that a drag of the instance has begun and has not completed.
Sliders == {"undertime", "makeup"}
NoTimeout == -1
Unmounted == [timeouts |-> [slider \in Sliders |-> NoTimeout],
              sliding |-> [slider \in Sliders |-> FALSE]]

\* The state of the offset modal: selectedRecord, undertime and makeup (in
\* hundredths of an hour), makeupDate, undertimeDate, availableDates,
\* showOffsetModal, and the sliders it renders while it is shown.
ClosedForm ==
  [showOffsetModal |-> FALSE, selectedRecord |-> Null, undertime |-> 0, makeup |-> 0,
   makeupDate |-> NoDate, undertimeDate |-> NoDate, availableDates |-> {},
   timeouts |-> Unmounted.timeouts, sliding |-> Unmounted.sliding]

handleOffsetModalOpen(record) ==
  [showOffsetModal |-> TRUE, selectedRecord |-> record,
   undertime |-> record.undertime, makeup |-> record.makeup,
   makeupDate |-> record.makeupDate,
   undertimeDate |-> formatRecordDate(record.date),
   availableDates |-> {formatRecordDate(timeRecords[i].date) : i \in 1..Len(timeRecords)},
   timeouts |-> Unmounted.timeouts, sliding |-> Unmounted.sliding]

\* setShowOffsetModal(false): the modal leaves the tree and the cleanup of
\* each slider clears its pending timeout.
offsetModalClosed(form) ==
  [form EXCEPT !.showOffsetModal = FALSE,
               !.timeouts = Unmounted.timeouts, !.sliding = Unmounted.sliding]

\* onPress of the Offset button: today's record opens the form, else a warning.
PressOffset ==
  /\ prompt = Null
  /\ presses < MaxInvocations
  /\ presses' = presses + 1
  /\ LET todayRecord == find(SelectSeq(timeRecords, isTodayRecord))
     IN IF todayRecord # Null
        THEN offsetForm' = handleOffsetModalOpen(todayRecord) /\ toast' = NoMessage
        ELSE offsetForm' = offsetForm
             /\ toast' = Message("No time record found for today", <<>>)
  /\ lastCall' = NoCall
  /\ UNCHANGED <<loading, refreshing, geoVars, sessionVars, currentTime, dropdownVars,
                 bioVars, envVars, loadData, fetches, callVars>>

\* onPress of Cancel in the offset modal.
PressOffsetCancel ==
  /\ offsetForm.showOffsetModal
  /\ prompt = Null
  /\ presses < MaxInvocations
  /\ presses' = presses + 1
  /\ offsetForm' = offsetModalClosed(offsetForm)
  /\ quiet
  /\ UNCHANGED <<loading, refreshing, geoVars, sessionVars, currentTime, dropdownVars,
                 bioVars, envVars, loadData, fetches, callVars>>

\* The values a slider of the modal can take: minimumValue 0, maximumValue 8
\* and step 0.25 hours, in hundredths of an hour.
MinimumValue == 0
MaximumValue == 800
Step == 25

\* The value the platform slider reports for a thumb dragged to `raw`: the
\* nearest step within the range.
sliderValue(raw) ==
  LET snapped == MinimumValue + ((raw - MinimumValue + Step \div 2) \div Step) * Step
  IN IF raw <= MinimumValue THEN MinimumValue
     ELSE IF snapped >= MaximumValue THEN MaximumValue
     ELSE snapped

\* Thumb positions of a drag, in hundredths of an hour along the track.
RawPositions == {0, 30, 810}

\* The value a slider shows: the one of its last onValueChange, reported
\* already or still pending.
thumb(form, slider) ==
  IF form.timeouts[slider] # NoTimeout THEN form.timeouts[slider] ELSE form[slider]

\* handleValueChange(val) of a slider: the pending timeout is cleared and a
\* new one is set that will report val.
SlideTo(slider, raw) ==
  /\ offsetForm.showOffsetModal
  /\ prompt = Null
  /\ presses < MaxInvocations
  /\ presses' = presses + 1
  /\ offsetForm' = [offsetForm EXCEPT !.timeouts[slider] = sliderValue(raw),
                                      !.sliding[slider] = TRUE]
  /\ quiet
  /\ UNCHANGED <<loading, refreshing, geoVars, sessionVars, currentTime, dropdownVars,
                 bioVars, envVars, loadData, fetches, callVars>>

\* The timeout of a slider fires, 50 ms after the last handleValueChange:
\* onValueChange(val).
SliderTimeout(slider) ==
  /\ offsetForm.showOffsetModal
  /\ offsetForm.timeouts[slider] # NoTimeout
  /\ offsetForm' = [offsetForm EXCEPT ![slider] = offsetForm.timeouts[slider],
                                      !.timeouts[slider] = NoTimeout]
  /\ quiet
  /\ UNCHANGED <<loading, refreshing, geoVars, sessionVars, currentTime, dropdownVars,
                 bioVars, envVars, loadData, fetches, callVars, presses>>

\* handleSlidingComplete(val) of a slider, val the value it shows when the
\* thumb is released: onValueChange(val), the timeout left as it is.
SlidingComplete(slider) ==
  /\ offsetForm.showOffsetModal
  /\ offsetForm.sliding[slider]
  /\ prompt = Null
  /\ presses < MaxInvocations
  /\ presses' = presses + 1
  /\ offsetForm' = [offsetForm EXCEPT ![slider] = thumb(offsetForm, slider),
                                      !.sliding[slider] = FALSE]
  /\ quiet
  /\ UNCHANGED <<loading, refreshing, geoVars, sessionVars, currentTime, dropdownVars,
                 bioVars, envVars, loadData, fetches, callVars>>

\* day.dateString of a day of a calendar.
dateString(day) == DateString("YYYY-MM-DD", day)

\* The days of the calendars: the days of the records and tomorrow.
Days == {Yesterday, Today, Today + 1}

\* onDayPress of the undertime calendar: only a date of availableDates is taken.
UndertimeDayPress(day) ==
  /\ offsetForm.showOffsetModal
  /\ prompt = Null
  /\ presses < MaxInvocations
  /\ presses' = presses + 1
  /\ offsetForm' = IF dateString(day) \in offsetForm.availableDates
                   THEN [offsetForm EXCEPT !.undertimeDate = dateString(day)]
                   ELSE offsetForm
  /\ quiet
  /\ UNCHANGED <<loading, refreshing, geoVars, sessionVars, currentTime, dropdownVars,
                 bioVars, envVars, loadData, fetches, callVars>>

\* onDayPress of the makeup calendar, whose minDate (today) disables the days
\* before it.
MakeupDayPress(day) ==
  /\ offsetForm.showOffsetModal
  /\ prompt = Null
  /\ presses < MaxInvocations
  /\ presses' = presses + 1
  /\ day >= Today
  /\ offsetForm' = [offsetForm EXCEPT !.makeupDate = dateString(day)]
  /\ quiet
  /\ UNCHANGED <<loading, refreshing, geoVars, sessionVars, currentTime, dropdownVars,
                 bioVars, envVars, loadData, fetches, callVars>>

\* makeupDate || undefined: an empty makeupDate is left out of the body.
orUndefined(date) == IF date = NoDate THEN Null ELSE date

\* The offset addressed to the record the form was opened on.
offsetRecordId_Selected(form, undertimeRecord) == form.selectedRecord._id

\* The record of the URL of the POST: /api/time-records/${undertimeRecord._id}/offset.
offsetRecordId(form, undertimeRecord) == undertimeRecord._id

\* A makeup date of any day passing for today or a future date.
makeupBeforeToday_Never(makeupDate) == FALSE

\* makeupDateObj < today of handleOffsetSubmit, both at the beginning of their
\* day, for a makeupDate that is provided.
makeupBeforeToday(makeupDate) == makeupDate # NoDate /\ makeupDate.day < Today

\* handleOffsetSubmit looking for the undertime date before it tests the
\* format of the makeup date.
handleOffsetSubmit_ExistenceFirst(id) ==
  LET call == NewCall("offset", id)
      form == offsetForm
      undertimeRecord ==
        find(SelectSeq(timeRecords, LAMBDA r : formatRecordDate(r.date) = form.undertimeDate))
  IN IF form.selectedRecord = Null
     THEN [call EXCEPT !.checks = <<"selected">>, !.out = "no_selection",
             !.message = Message("No record selected", <<>>)]
     ELSE IF form.undertimeDate \notin form.availableDates
     THEN [call EXCEPT !.checks = <<"selected", "exists">>, !.out = "no_date",
             !.message = Message("Undertime date must exist in daily records", <<>>)]
     ELSE IF form.makeupDate # NoDate /\ form.makeupDate.format # "YYYY-MM-DD"
     THEN [call EXCEPT !.checks = <<"selected", "exists", "format">>, !.out = "bad_format",
             !.message = Message("Makeup date must be in YYYY-MM-DD format", <<>>)]
     ELSE IF undertimeRecord = Null
     THEN [call EXCEPT !.checks = <<"selected", "format", "exists", "record">>,
             !.out = "no_record",
             !.message = Message("Could not find the selected undertime date record",
                                 <<>>)]
     ELSE IF makeupBeforeToday(form.makeupDate)
     THEN [call EXCEPT !.checks = <<"selected", "format", "exists", "record", "makeup">>,
             !.out = "past_makeup",
             !.message = Message("Makeup date must be today or a future date", <<>>)]
     ELSE IF ~token
     THEN [call EXCEPT !.checks = <<"selected", "format", "exists", "record", "makeup">>,
             !.out = "no_token"]
     ELSE [call EXCEPT !.checks = <<"selected", "format", "exists", "record", "makeup">>,
             !.pc = "post", !.posts = @ + 1,
             !.request = [url |-> "offset", id |-> offsetRecordId(form, undertimeRecord),
                          undertimeDate |-> form.undertimeDate,
                          undertime |-> form.undertime, makeup |-> form.makeup,
                          makeupDate |-> orUndefined(form.makeupDate)]]

\* handleOffsetSubmit from its call to its POST (or to its return).
handleOffsetSubmit(id) ==
  LET call == NewCall("offset", id)
      form == offsetForm
      undertimeRecord ==
        find(SelectSeq(timeRecords, LAMBDA r : formatRecordDate(r.date) = form.undertimeDate))
  IN IF form.selectedRecord = Null
     THEN [call EXCEPT !.checks = <<"selected">>, !.out = "no_selection",
             !.message = Message("No record selected", <<>>)]
     ELSE IF form.makeupDate # NoDate /\ form.makeupDate.format # "YYYY-MM-DD"
     THEN [call EXCEPT !.checks = <<"selected", "format">>, !.out = "bad_format",
             !.message = Message("Makeup date must be in YYYY-MM-DD format", <<>>)]
     ELSE IF form.undertimeDate \notin form.availableDates
     THEN [call EXCEPT !.checks = <<"selected", "format", "exists">>, !.out = "no_date",
             !.message = Message("Undertime date must exist in daily records", <<>>)]
     ELSE IF undertimeRecord = Null
     THEN [call EXCEPT !.checks = <<"selected", "format", "exists", "record">>,
             !.out = "no_record",
             !.message = Message("Could not find the selected undertime date record",
                                 <<>>)]
     ELSE IF makeupBeforeToday(form.makeupDate)
     THEN [call EXCEPT !.checks = <<"selected", "format", "exists", "record", "makeup">>,
             !.out = "past_makeup",
             !.message = Message("Makeup date must be today or a future date", <<>>)]
     ELSE IF ~token
     THEN [call EXCEPT !.checks = <<"selected", "format", "exists", "record", "makeup">>,
             !.out = "no_token"]
     ELSE [call EXCEPT !.checks = <<"selected", "format", "exists", "record", "makeup">>,
             !.pc = "post", !.posts = @ + 1,
             !.request = [url |-> "offset", id |-> offsetRecordId(form, undertimeRecord),
                          undertimeDate |-> form.undertimeDate,
                          undertime |-> form.undertime, makeup |-> form.makeup,
                          makeupDate |-> orUndefined(form.makeupDate)]]

\* onPress of Save in the offset modal.
PressOffsetSave ==
  /\ offsetForm.showOffsetModal
  /\ ~loading
  /\ prompt = Null
  /\ presses < MaxInvocations
  /\ Len(calls) < MaxCalls
  /\ presses' = presses + 1
  /\ callAdvanced(handleOffsetSubmit(presses + 1), calls)
  /\ UNCHANGED <<refreshing, geoVars, sessionVars, currentTime, dropdownVars, offsetForm,
                 bioVars, envVars, loadData, fetches>>

\* The service records the offset on the record addressed.
offsetRecorded(records, request) ==
  [records EXCEPT ![indexOfId(records, request.id)] =
      [@ EXCEPT !.undertime = request.undertime, !.makeup = request.makeup,
                !.makeupDate = IF request.makeupDate = Null THEN NoDate
                               ELSE request.makeupDate]]

\* The POST of the offset is answered: accepted (message, the modal closes,
\* fetchTimeRecords() not awaited, finally), or failed.
OffsetResponds(k, ok, error) ==
  /\ k \in 1..Len(calls)
  /\ calls[k].kind = "offset"
  /\ calls[k].pc = "post"
  /\ IF ok
     THEN /\ indexOfId(server, calls[k].request.id) # 0
          /\ Len(fetches) < MaxFetches
          /\ server' = offsetRecorded(server, calls[k].request)
          /\ toast' = Message("Offset recorded", <<>>)
          /\ offsetForm' = offsetModalClosed(offsetForm)
          /\ fetches' = Append(fetches, [session |-> calls[k].session, owner |-> "offset",
                                         caller |-> calls[k].id, status |-> "pending",
                                         data |-> <<>>])
          /\ lastCall' = [calls[k] EXCEPT !.pc = "idle", !.out = "ok", !.gets = @ + 1,
                            !.message = Message("Offset recorded", <<>>)]
     ELSE /\ toast' = Message(orElse(error, "Failed to submit offset"), <<>>)
          /\ lastCall' = [calls[k] EXCEPT !.pc = "idle", !.out = "failed", !.error = error,
                            !.message = Message(orElse(error, "Failed to submit offset"),
                                                <<>>)]
          /\ UNCHANGED <<server, fetches, offsetForm>>
  /\ loading' = FALSE
  /\ calls' = RemoveAt(calls, k)
  /\ UNCHANGED <<refreshing, geoVars, sessionVars, currentTime, dropdownVars,
                 bioVars, now, token, loadData, prompt, presses>>

\* ------------------------------------------------------- dropdown items
dropdownShown(session) == IF session = "AM" THEN showAMDropdown ELSE showPMDropdown

\* onPress of the "Time In" item of the AM (PM) dropdown.
PressTimeIn(session) ==
  /\ dropdownShown(session)
  /\ ~(activeTimeRecord # Null \/ loading \/ ~isWithinRange)
  /\ prompt = Null
  /\ presses < MaxPresses
  /\ Len(calls) < MaxCalls
  /\ presses' = presses + 1
  /\ callAdvanced(handleTimeIn(presses + 1), calls)
  /\ showAMDropdown' = IF session = "AM" THEN FALSE ELSE showAMDropdown
  /\ showPMDropdown' = IF session = "PM" THEN FALSE ELSE showPMDropdown
  /\ UNCHANGED <<refreshing, geoVars, sessionVars, currentTime, offsetForm, bioVars,
                 envVars, loadData, fetches>>

\* onPress of the "Time Out" item of the AM (PM) dropdown.
PressTimeOut(session) ==
  /\ dropdownShown(session)
  /\ ~(activeTimeRecord = Null \/ loading \/ ~isWithinRange)
  /\ prompt = Null
  /\ presses < MaxPresses
  /\ Len(calls) < MaxCalls
  /\ presses' = presses + 1
  /\ callAdvanced(handleTimeOut(presses + 1), calls)
  /\ showAMDropdown' = IF session = "AM" THEN FALSE ELSE showAMDropdown
  /\ showPMDropdown' = IF session = "PM" THEN FALSE ELSE showPMDropdown
  /\ UNCHANGED <<refreshing, geoVars, sessionVars, currentTime, offsetForm, bioVars,
                 envVars, loadData, fetches>>

\* handleTimeIn / handleTimeOut called as functions, whatever the items show.
CallHandleTimeIn ==
  /\ prompt = Null
  /\ presses < MaxInvocations
  /\ Len(calls) < MaxCalls
  /\ presses' = presses + 1
  /\ callAdvanced(handleTimeIn(presses + 1), calls)
  /\ UNCHANGED <<refreshing, geoVars, sessionVars, currentTime, dropdownVars, offsetForm, bioVars,
                 envVars, loadData, fetches>>

CallHandleTimeOut ==
  /\ prompt = Null
  /\ presses < MaxInvocations
  /\ Len(calls) < MaxCalls
  /\ presses' = presses + 1
  /\ callAdvanced(handleTimeOut(presses + 1), calls)
  /\ UNCHANGED <<refreshing, geoVars, sessionVars, currentTime, dropdownVars, offsetForm, bioVars,
                 envVars, loadData, fetches>>

CallAuthenticate(promptMessage, forceAuth) ==
  /\ prompt = Null
  /\ presses < MaxInvocations
  /\ Len(calls) < MaxCalls
  /\ presses' = presses + 1
  /\ callAdvanced(authenticateCalled(presses + 1, promptMessage, forceAuth), calls)
  /\ UNCHANGED <<refreshing, geoVars, sessionVars, currentTime, dropdownVars, offsetForm, bioVars,
                 envVars, loadData, fetches>>

\* ---------------------------------------------------------------- system
\* What the service may hold when the screen opens: yesterday's closed record,
\* alone or with a record of today (AM open, AM timed in and out, or a legacy
\* record left open).
InitialServers ==
  {<<YesterdayRecord>>,
   <<YesterdayRecord, TimeRecord(Today, TRUE, FALSE, FALSE, FALSE, FALSE, FALSE)>>,
   <<YesterdayRecord, TimeRecord(Today, TRUE, TRUE, FALSE, FALSE, FALSE, FALSE)>>,
   <<YesterdayRecord, TimeRecord(Today, FALSE, FALSE, FALSE, FALSE, TRUE, FALSE)>>}

\* The state of the first render, whatever the user has done so far.
Mount ==
  /\ loading = TRUE
  /\ refreshing = FALSE
  /\ locationPermission = FALSE
  /\ currentLocation = Null
  /\ officeLocation = Null
  /\ timeRecords = <<>>
  /\ activeSession = InitialSession
  /\ activeTimeRecord = Null
  /\ isWithinRange = FALSE
  /\ distance = NoDistance
  /\ currentTime \in StartHours
  /\ showAMDropdown = FALSE
  /\ showPMDropdown = FALSE
  /\ offsetForm = ClosedForm
  /\ biometricStatus = [available |-> FALSE, enrolled |-> FALSE, enabled |-> FALSE]
  /\ bioLoading = TRUE
  /\ toast = NoMessage
  /\ now = currentTime
  /\ server \in InitialServers
  /\ token \in BOOLEAN
  /\ loadData = "permission"
  /\ locReqs = <<>>
  /\ officeReqs = <<>>
  /\ watch = <<>>
  /\ fetches = <<>>
  /\ prompt = Null
  /\ calls = <<>>
  /\ lastCall = NoCall

Init ==
  /\ Mount
  /\ presses = 0

\* Loading: the permission request, the position requests and the office fetch.
Loading ==
  \/ \E granted \in BOOLEAN : RequestLocationPermission(granted)
  \/ \E i \in 1..MaxRequests + 1, result \in Locations \cup {Null} :
        GetCurrentLocationResolves(i, result)
  \/ \E i \in 1..MaxRequests + 1, ok \in BOOLEAN : FetchOfficeLocationResolves(i, ok)

\* The device (position samples, the biometric status), the requests in
\* flight (the fetches, the prompt, the POSTs) and the clock.
Device ==
  \/ \E i \in 1..MaxWatches, location \in Locations : WatchPosition(i, location)
  \/ \E compatible \in BOOLEAN, enrolled \in BOOLEAN, enabled \in BOOLEAN :
        CheckBiometricStatusResolves(compatible, enrolled, enabled)

Fetching ==
  \/ \E i \in 1..MaxFetches, ok \in BOOLEAN : TimeRecordsAnswered(i, ok)
  \/ \E i \in 1..MaxFetches : FetchTimeRecordsResumes(i)

Clock ==
  \/ ClockAdvances
  \/ TimerTick

Requests ==
  \/ \E result \in {"biometric", "passcode", "failure", "error"} : AuthenticateResolves(result)
  \/ \E k \in 1..MaxCalls, ok \in BOOLEAN, error \in ServerErrors : TimeInResponds(k, ok, error)
  \/ \E k \in 1..MaxCalls, ok \in BOOLEAN, error \in ServerErrors : TimeOutResponds(k, ok, error)

\* The offset form: the Offset button, Cancel and Save, and the answer to the POST.
Offsetting ==
  \/ PressOffset
  \/ PressOffsetCancel
  \/ PressOffsetSave
  \/ \E k \in 1..MaxCalls, ok \in BOOLEAN, error \in ServerErrors : OffsetResponds(k, ok, error)

\* The controls of the offset modal: the two sliders and the two calendars.
Editing ==
  \/ \E slider \in Sliders, raw \in RawPositions : SlideTo(slider, raw)
  \/ \E slider \in Sliders : SliderTimeout(slider)
  \/ \E slider \in Sliders : SlidingComplete(slider)
  \/ \E day \in Days : UndertimeDayPress(day)
  \/ \E day \in Days : MakeupDayPress(day)

Screen ==
  \/ Device
  \/ Fetching
  \/ Clock
  \/ Requests
  \/ \E session \in Sessions : PressSession(session)
  \/ CloseAllDropdowns
  \/ OnRefresh
  \/ \E session \in Sessions : PressTimeIn(session)
  \/ \E session \in Sessions : PressTimeOut(session)

\* The geofence while the screen loads: the permission, the position requests,
\* the office fetches, the watch subscriptions and their samples.
Tracking ==
  \/ Loading
  \/ \E i \in 1..MaxWatches : WatchSubscribed(i)
  \/ \E i \in 1..MaxWatches, location \in Locations : WatchPosition(i, location)

Next == Tracking \/ Screen \/ Offsetting \/ Editing

Spec == Init /\ [][Next]_vars

\* The screen at mount, in the morning, with no record of today at the service
\* (neither matters to the geofence).
InitTracking ==
  /\ Init
  /\ now = NoonHour - 1
  /\ server = <<YesterdayRecord>>

SpecTracking == InitTracking /\ [][Tracking]_vars

\* The screen once loadData has reached its fetch of the time records: the
\* permission was granted, the office fetch has answered, the watch runs with
\* that office, the position requests have answered (currentLocation is the
\* position loadData obtained, if any) and fetchOfficeLocation, which saw no
\* location, has left distance null and isWithinRange false.
InitLoaded ==
  /\ loading = TRUE
  /\ refreshing = FALSE
  /\ locationPermission = TRUE
  /\ currentLocation \in {Null, [lat |-> 1, accuracy |-> 10]}
  /\ officeLocation = ServerOffice
  /\ timeRecords = <<>>
  /\ activeSession = InitialSession
  /\ activeTimeRecord = Null
  /\ isWithinRange = FALSE
  /\ distance = NoDistance
  /\ currentTime \in StartHours
  /\ showAMDropdown = FALSE
  /\ showPMDropdown = FALSE
  /\ offsetForm = ClosedForm
  /\ biometricStatus = [available |-> FALSE, enrolled |-> FALSE, enabled |-> FALSE]
  /\ bioLoading = TRUE
  /\ toast = NoMessage
  /\ now = currentTime
  /\ server \in InitialServers
  /\ token = TRUE
  /\ loadData = "records"
  /\ locReqs = <<>>
  /\ officeReqs = <<>>
  /\ watch = <<[Subscription(officeLocation, currentLocation) EXCEPT !.subscribed = TRUE]>>
  /\ fetches = <<[session |-> InitialSession, owner |-> "load", caller |-> 0,
                  status |-> "pending", data |-> <<>>]>>
  /\ prompt = Null
  /\ calls = <<>>
  /\ lastCall = NoCall
  /\ presses = 0

SpecScreen == InitLoaded /\ [][Screen]_vars

\* The handlers called as functions, as a test of the screen does, in place
\* of the presses.
Called ==
  \/ Device
  \/ Fetching
  \/ Requests
  \/ Offsetting
  \/ CallHandleTimeIn
  \/ CallHandleTimeOut

SpecCalled == InitLoaded /\ [][Called]_vars

\* The geofence of the loaded screen: accurate samples of the watch at 0, 50,
\* 100 and 150 m from the office while the records are fetched.
FenceLocations == [lat : 0..3, accuracy : {10}]

Geofence ==
  \/ \E i \in 1..MaxWatches, location \in FenceLocations : WatchPosition(i, location)
  \/ Fetching

SpecGeofence == InitLoaded /\ [][Geofence]_vars

\* The offset form on the loaded screen, in the morning. The service holds
\* yesterday's record and today's, whose undertime and makeup are the numbers
\* the service gives: none, those of an offset recorded before, or an
\* undertime that is no step of the sliders.
OffsetServers ==
  {<<YesterdayRecord,
     [TimeRecord(Today, TRUE, TRUE, FALSE, FALSE, FALSE, FALSE)
        EXCEPT !.undertime = undertime, !.makeup = makeup]>> :
     undertime \in {0, 2 * Step, Step + Step \div 2}, makeup \in {0, MaximumValue}}

\* The strings the date states of the form may hold when handleOffsetSubmit
\* is called: an undertime date of a record or of no record, and no makeup
\* date, one in another format, or one of yesterday, today or tomorrow.
UndertimeDates == {dateString(day) : day \in Days}
MakeupDates == {NoDate, DateString("MM/DD/YYYY", Today + 1)} \cup {dateString(day) : day \in Days}

InitOffset ==
  /\ loading = FALSE
  /\ refreshing = FALSE
  /\ locationPermission = TRUE
  /\ currentLocation = [lat |-> 1, accuracy |-> 10]
  /\ officeLocation = ServerOffice
  /\ server \in OffsetServers
  /\ timeRecords = sortByDateDesc(server)
  /\ activeSession = InitialSession
  /\ activeTimeRecord = Null
  /\ isWithinRange = TRUE
  /\ distance = haversineMeters(officeLocation, currentLocation)
  /\ currentTime = NoonHour - 1
  /\ showAMDropdown = FALSE
  /\ showPMDropdown = FALSE
  /\ \/ offsetForm = ClosedForm
     \/ \E undertimeDate \in UndertimeDates, makeupDate \in MakeupDates :
           offsetForm = [handleOffsetModalOpen(timeRecords[1])
                           EXCEPT !.undertimeDate = undertimeDate,
                                  !.makeupDate = makeupDate]
  /\ biometricStatus = [available |-> TRUE, enrolled |-> TRUE, enabled |-> FALSE]
  /\ bioLoading = FALSE
  /\ toast = NoMessage
  /\ now = currentTime
  /\ token = TRUE
  /\ loadData = "done"
  /\ locReqs = <<>>
  /\ officeReqs = <<>>
  /\ watch = <<[Subscription(officeLocation, currentLocation) EXCEPT !.subscribed = TRUE]>>
  /\ fetches = <<>>
  /\ prompt = Null
  /\ calls = <<>>
  /\ lastCall = NoCall
  /\ presses = 0

OffsetForm ==
  \/ Offsetting
  \/ Editing
  \/ Fetching

SpecOffset == InitOffset /\ [][OffsetForm]_vars

\* The screen from its mount to the end of every call, with the handlers and
\* the refresh called as a user may at any moment. A position request fails
\* or brings an accurate position near the office, as does the watch of the
\* current run of the tracking effect; every request sent to the
\* platform or to the service is answered in the end, and a call that has
\* been answered resumes.
Mounting ==
  \/ \E granted \in BOOLEAN : RequestLocationPermission(granted)
  \/ \E i \in 1..MaxRequests + 1, result \in {Null, [lat |-> 1, accuracy |-> 10]} :
        GetCurrentLocationResolves(i, result)
  \/ \E i \in 1..MaxRequests + 1, ok \in BOOLEAN : FetchOfficeLocationResolves(i, ok)
  \/ \E i \in 1..MaxWatches : WatchSubscribed(i)
  \/ \E compatible \in BOOLEAN : CheckBiometricStatusResolves(compatible, TRUE, FALSE)

Live ==
  \/ Mounting
  \/ \E i \in 1..MaxWatches :
        /\ i \in 1..Len(watch)
        /\ ~watch[i].cleaned
        /\ WatchPosition(i, [lat |-> 1, accuracy |-> 10])
  \/ Fetching
  \/ Requests
  \/ Offsetting
  \/ CallHandleTimeIn
  \/ CallHandleTimeOut
  \/ OnRefresh

\* Two kinds of run, in the morning: from the mount, the user touching nothing
\* while and after the data loads; and from the last step of the load, the
\* user calling the handlers and the refresh.
InitLive ==
  /\ now = NoonHour - 1
  /\ \/ /\ Mount
        /\ presses = MaxPresses
        /\ server = <<YesterdayRecord>>
     \/ /\ InitLoaded
        /\ server \in {<<YesterdayRecord>>,
                       <<YesterdayRecord,
                         TimeRecord(Today, TRUE, FALSE, FALSE, FALSE, FALSE, FALSE)>>}

\* Every request is answered in the end.
Answered ==
  /\ WF_vars(Mounting)
  /\ WF_vars(Fetching)
  /\ WF_vars(Requests)
  /\ WF_vars(\E k \in 1..MaxCalls, ok \in BOOLEAN, error \in ServerErrors :
                OffsetResponds(k, ok, error))

SpecLive == InitLive /\ [][Live]_vars /\ Answered

\* The hook alone: authenticate called with any prompt and forceAuth.
Authenticating ==
  \/ \E compatible \in BOOLEAN, enrolled \in BOOLEAN, enabled \in BOOLEAN :
        CheckBiometricStatusResolves(compatible, enrolled, enabled)
  \/ \E promptMessage \in Prompts, forceAuth \in BOOLEAN :
        CallAuthenticate(promptMessage, forceAuth)
  \/ \E result \in {"biometric", "passcode", "failure", "error"} : AuthenticateResolves(result)

SpecAuthenticate == InitLoaded /\ [][Authenticating]_vars

\* ---------------------------------------------------------------- claims
\* The handler calls in progress and the one that returned in the last step.
Calls == {calls[k] : k \in 1..Len(calls)} \cup {lastCall}
CallsOf(kind) == {c \in Calls : c.kind = kind}
Has(checks, check) == \E i \in 1..Len(checks) : checks[i] = check
IsPrefix(s, t) == Len(s) <= Len(t) /\ SubSeq(t, 1, Len(s)) = s

OutOfRangeTimeIn ==
  "You must be within office range to time in. You are currently ${distance} meters away from the office."
TimeInChecks == <<"location", "geofence", "status", "authenticate">>
TimeOutChecks == <<"record", "location", "geofence", "status", "authenticate">>

\* A call of handleTimeIn with isWithinRange false consulted no biometric gate
\* and sent no request.
NoGateNoRequest(c) ==
  /\ ~Has(c.checks, "status")
  /\ ~Has(c.checks, "authenticate")
  /\ c.auth = "none"
  /\ c.posts = 0
  /\ c.gets = 0
  /\ c.request = Null

\* C1 (as stated): whenever handleTimeIn is invoked with withinRange false it
\* returns without the status check, without authenticate, without a request,
\* and the message it surfaces reports the current distance.
C1_AsStated ==
  (lastCall.kind = "timeIn" /\ ~lastCall.withinRange) =>
     /\ NoGateNoRequest(lastCall)
     /\ toast = Message(OutOfRangeTimeIn, <<distance>>)

\* C1 (amended): whenever handleTimeIn is invoked with withinRange false it
\* returns at once without the status check, without authenticate and without
\* a request; with a known position the message it surfaces is the out-of-range
\* message carrying the distance state, and with no position it is "Unable to
\* get your current location", which reports no distance.
C1_GeofenceBeforeBiometrics ==
  /\ \A k \in 1..Len(calls) : calls[k].kind = "timeIn" => calls[k].withinRange
  /\ (lastCall.kind = "timeIn" /\ ~lastCall.withinRange) =>
        /\ NoGateNoRequest(lastCall)
        /\ prompt = Null
        /\ IF lastCall.location = Null
           THEN toast = Message("Unable to get your current location", <<>>)
           ELSE toast = Message(OutOfRangeTimeIn, <<distance>>)

\* C1 witness: handleTimeIn returned out of range, 150 m from the office, and
\* the message carries 150.
C1_Witness ==
  /\ lastCall.kind = "timeIn"
  /\ ~lastCall.withinRange
  /\ lastCall.location # Null
  /\ lastCall.out = "out_of_range"
  /\ toast = Message(OutOfRangeTimeIn, <<150>>)

\* C2: a time-in POST is issued only if, in this order, currentLocation is
\* non-null, isWithinRange is true, the biometric hardware is available and
\* enrolled and authenticate returned success; a call denies at the first check
\* that fails, runs none of the later checks and issues no request.
C2_TimeInPreconditions ==
  \A c \in CallsOf("timeIn") :
     /\ IsPrefix(c.checks, TimeInChecks)
     /\ c.posts > 0 =>
           /\ c.location # Null
           /\ c.withinRange
           /\ c.status.available /\ c.status.enrolled
           /\ c.auth = "biometric"
           /\ c.checks = TimeInChecks
     /\ IF c.location = Null
        THEN c.checks = <<"location">> /\ c.out = "no_location" /\ c.auth = "none"
             /\ c.posts = 0
        ELSE IF ~c.withinRange
        THEN c.checks = <<"location", "geofence">> /\ c.out = "out_of_range"
             /\ c.auth = "none" /\ c.posts = 0
        ELSE IF ~(c.status.available /\ c.status.enrolled)
        THEN c.checks = <<"location", "geofence", "status">> /\ c.out = "not_set_up"
             /\ c.auth = "none" /\ c.posts = 0
        ELSE /\ c.checks = TimeInChecks
             /\ c.auth \notin {"none", "biometric"} => c.out = "auth_failed" /\ c.posts = 0

\* C2 witness: a call of handleTimeIn passed the four checks and its POST is
\* in flight.
C2_Witness ==
  \E c \in CallsOf("timeIn") :
     c.pc = "post" /\ c.posts = 1 /\ c.request.url = "time-in" /\ c.auth = "biometric"

\* What decides a time-in / time-out call apart from the enabled preference.
passesChecks(c) ==
  /\ c.kind = "timeOut" => c.record # Null
  /\ c.location # Null
  /\ c.withinRange
  /\ c.status.available
  /\ c.status.enrolled

\* C6: the enabled preference has no effect on time tracking: authenticate, as
\* handleTimeIn and handleTimeOut call it, decides the same with the preference
\* on and off; a call is put to the platform prompt exactly when its other
\* checks pass, and a request is issued exactly when the platform biometric
\* authentication then succeeded.
C6_EnabledHasNoEffect ==
  /\ \A promptMessage \in {TimeInPrompt, TimeOutPrompt} :
        authenticate([biometricStatus EXCEPT !.enabled = TRUE], promptMessage, TRUE)
          = authenticate([biometricStatus EXCEPT !.enabled = FALSE], promptMessage, TRUE)
  /\ \A c \in CallsOf("timeIn") \cup CallsOf("timeOut") :
        /\ (c.pc = "auth" \/ c.auth # "none") <=> passesChecks(c)
        /\ c.posts > 0 <=> (passesChecks(c) /\ c.auth = "biometric" /\ token)

\* C6 witness: with the preference off, a request was issued after a platform
\* biometric success.
C6_Witness ==
  \E c \in CallsOf("timeIn") \cup CallsOf("timeOut") :
     ~c.status.enabled /\ c.posts = 1 /\ c.auth = "biometric"

\* C7: every platform authentication call has the device fallback disabled;
\* a forced or time-tracking call of authenticate returns true only with the
\* hardware available, a biometric enrolled and the platform biometric check
\* passed; an exception yields false; no call ends by a passcode.
C7_NoPasscodeFallback ==
  /\ prompt # Null => prompt.disableDeviceFallback /\ prompt.fallbackLabel = ""
  /\ \A c \in Calls : c.auth # "passcode"
  /\ lastCall.kind = "authenticate" =>
        /\ ((lastCall.forceAuth \/ isTimeTrackingOperation(lastCall.promptMessage))
              /\ lastCall.out = "true")
             => /\ lastCall.status.available
                /\ lastCall.status.enrolled
                /\ lastCall.auth = "biometric"
        /\ lastCall.auth = "error" => lastCall.out = "false"

\* C7 witness: a forced call of authenticate, with the enrolment prompt,
\* returned true.
C7_Witness ==
  /\ lastCall.kind = "authenticate"
  /\ lastCall.forceAuth
  /\ lastCall.promptMessage = EnrollPrompt
  /\ lastCall.out = "true"

\* A request of call c was issued in the step just taken.
issuedNow(c) ==
  /\ c.pc = "post"
  /\ \A j \in 1..Len(calls) : calls[j].id = c.id => calls[j].pc # "post"

\* C3 (as stated): a time-out POST is issued only with a record open for the
\* selected session S and with the location, geofence, status and
\* authentication checks passed; with no active record the call denies before
\* any other check; the request goes to that record's id and carries S.
C3_AsStated ==
  \A c \in CallsOf("timeOut") :
     /\ c.record = Null => c.checks = <<"record">> /\ c.posts = 0
     /\ c.posts > 0 =>
           /\ c.record # Null
           /\ isTodayRecord(c.record)
           /\ isActiveFor(c.record, c.session)
           /\ c.checks = TimeOutChecks
           /\ c.location # Null /\ c.withinRange
           /\ c.status.available /\ c.status.enrolled
           /\ c.auth = "biometric"
           /\ c.request.id = c.record._id
           /\ c.request.session = c.session

\* A record of today in `records` has S-TimeIn set and S-TimeOut unset.
sessionOpen(records, session) ==
  \E i \in 1..Len(records) :
     /\ isTodayRecord(records[i])
     /\ IF session = "AM" THEN records[i].amTimeIn /\ ~records[i].amTimeOut
                          ELSE records[i].pmTimeIn /\ ~records[i].pmTimeOut

\* C4 (as stated): over refreshes, session-button presses and time actions, no
\* time-in request for session S is issued while a record of today (at the
\* service and in the records list the screen holds) has S-TimeIn set and
\* S-TimeOut unset.
C4_AsStated ==
  [][\A k \in 1..Len(calls') :
        (calls'[k].kind = "timeIn" /\ issuedNow(calls'[k]))
           => ~(sessionOpen(timeRecords', calls'[k].session)
                  /\ sessionOpen(server', calls'[k].session))]_vars

\* C5 (as stated): whenever a time-in or time-out request is issued, the most
\* recently accepted position sample is within the office radius, samples
\* delivered while the biometric prompt was pending included.
C5_AsStated ==
  [][\A k \in 1..Len(calls') :
        (calls'[k].kind \in {"timeIn", "timeOut"} /\ issuedNow(calls'[k]))
           => /\ currentLocation' # Null
              /\ haversineMeters(officeLocation', currentLocation') <= officeLocation'.radius]_vars

\* The resolution order as the claim states it, from the session that was
\* active before the refresh.
reconcile(previousActiveSession, records, hour) ==
  LET todayRecords == SelectSeq(records, isTodayRecord)
      openRecord(session) ==
        IF session = "AM" THEN find(SelectSeq(todayRecords, isActiveAM))
                          ELSE find(SelectSeq(todayRecords, isActivePM))
  IN IF openRecord(previousActiveSession) # Null
     THEN <<openRecord(previousActiveSession), previousActiveSession>>
     ELSE IF openRecord("AM") # Null THEN <<openRecord("AM"), "AM">>
     ELSE IF openRecord("PM") # Null THEN <<openRecord("PM"), "PM">>
     ELSE <<Null, IF hour < 12 THEN "AM" ELSE "PM">>

\* C10 (as stated): on every refresh path, when a fetch of the records
\* succeeds, activeTimeRecord and activeSession become what the resolution
\* order gives from the session active before: that session if it has an open
\* record today, else AM if open, else PM if open, else by the hour with no
\* record.
C10_AsStated ==
  [][\A i \in 1..Len(fetches) :
        (fetches' = RemoveAt(fetches, i) /\ fetches[i].status = "ok")
           => <<activeTimeRecord', activeSession'>>
                 = reconcile(activeSession, sortByDateDesc(fetches[i].data), now)]_vars

\* The fixed message of a failed request that brought no error field.
fallbackMessage(kind) ==
  IF kind = "timeIn" THEN "Failed to record time-in"
  ELSE IF kind = "timeOut" THEN "Failed to record time-out"
  ELSE "Failed to submit offset"

\* C8: a step in which a time-in, time-out or offset request fails leaves
\* activeSession, activeTimeRecord and timeRecords as they were, and the
\* message surfaced is the error field of the response when it has one, else
\* the fixed fallback of the handler.
C8_FailureLeavesState ==
  [][lastCall'.out = "failed" =>
        /\ lastCall'.kind \in {"timeIn", "timeOut", "offset"}
        /\ activeSession' = activeSession
        /\ activeTimeRecord' = activeTimeRecord
        /\ timeRecords' = timeRecords
        /\ toast' = Message(IF lastCall'.error # "" THEN lastCall'.error
                            ELSE fallbackMessage(lastCall'.kind), <<>>)]_vars

\* C8 witness: a time-out request failed with an error field, which is the
\* message shown, and the active record is still held.
C8_Witness ==
  /\ lastCall.kind = "timeOut"
  /\ lastCall.out = "failed"
  /\ lastCall.error # ""
  /\ toast.text = lastCall.error
  /\ activeTimeRecord # Null

\* C9: a call of handleTimeIn that passed its checks sent exactly one POST, to
\* time-in, with the session selected when it was called, and once the POST
\* is accepted exactly one GET of the records; an accepted time-out or offset
\* issues a fetch of the records in the same step; and timeRecords changes only
\* when a fetch resumes, to the sorted response (or to the empty list when the
\* fetch failed).
C9_OnePostThenRefetch ==
  [][/\ timeRecords' # timeRecords =>
           \E i \in 1..Len(fetches) :
              /\ fetches' = RemoveAt(fetches, i)
              /\ timeRecords' = IF fetches[i].status = "ok"
                                THEN sortByDateDesc(fetches[i].data) ELSE <<>>
     /\ \A c \in Calls' :
           /\ (c.kind # "none" /\ \A j \in 1..Len(calls) : calls[j].id # c.id)
                 => c.session = activeSession
           /\ (c.kind = "timeIn" /\ (c.pc \in {"post", "refetch"} \/ c.out \in {"ok", "failed"}))
                 => /\ c.posts = 1
                    /\ c.request.url = "time-in"
                    /\ c.request.session = c.session
                    /\ c.request.biometricAuthenticated
                    /\ c.gets = IF c.pc = "refetch" \/ c.out = "ok" THEN 1 ELSE 0
           /\ (c.kind = "timeIn" /\ c.pc = "refetch")
                 => Cardinality({i \in 1..Len(fetches') :
                                   fetches'[i].owner = "timeIn" /\ fetches'[i].caller = c.id}) = 1
     /\ (lastCall'.kind \in {"timeOut", "offset"} /\ lastCall'.out = "ok")
           => /\ lastCall'.posts = 1
              /\ lastCall'.gets = 1
              /\ Len(fetches') = Len(fetches) + 1
              /\ fetches'[Len(fetches')].caller = lastCall'.id
              /\ fetches'[Len(fetches')].status = "pending"]_vars

\* C9 witness: a time-in for PM went through: one POST with session PM, one GET.
C9_Witness ==
  /\ lastCall.kind = "timeIn"
  /\ lastCall.out = "ok"
  /\ lastCall.posts = 1
  /\ lastCall.gets = 1
  /\ lastCall.request.session = "PM"

\* A record of today in `records` has both S-TimeIn and S-TimeOut set.
sessionDone(records, session) ==
  \E i \in 1..Len(records) :
     /\ isTodayRecord(records[i])
     /\ IF session = "AM" THEN records[i].amTimeIn /\ records[i].amTimeOut
                          ELSE records[i].pmTimeIn /\ records[i].pmTimeOut

\* C11 (as stated): within a calendar day a session is closed, open, closed and
\* then terminal: once a time-out for session S has been recorded today (at
\* the service, and in the records list the screen holds), no time-in request
\* for S is issued.
C11_AsStated ==
  [][\A k \in 1..Len(calls') :
        (calls'[k].kind = "timeIn" /\ issuedNow(calls'[k]))
           => ~(sessionDone(timeRecords', calls'[k].session)
                  /\ sessionDone(server', calls'[k].session))]_vars

\* C12 (as stated): when a fetch of the time records fails, the records list
\* becomes empty and activeTimeRecord is null after it, whatever it was before.
C12_AsStated ==
  [][\A i \in 1..Len(fetches) :
        (fetches' = RemoveAt(fetches, i) /\ fetches[i].status = "failed")
           => timeRecords' = <<>> /\ activeTimeRecord' = Null]_vars

\* C13 (as stated): when the clock of the screen crosses noon with no open
\* record (and no fetch of the records in flight), activeSession becomes PM
\* without a fetch of the records, and a time-in issued after noon with no
\* open record carries session PM.
C13_AsStated ==
  [][/\ (currentTime < NoonHour /\ currentTime' >= NoonHour /\ fetches = <<>>
           /\ ~hasActive("AM") /\ ~hasActive("PM") /\ activeTimeRecord = Null)
          => activeSession' = "PM"
     /\ \A k \in 1..Len(calls') :
           (calls'[k].kind = "timeIn" /\ issuedNow(calls'[k]) /\ currentTime' >= NoonHour
              /\ ~(hasActive("AM"))' /\ ~(hasActive("PM"))')
             => calls'[k].request.session = "PM"]_vars

\* A record of today in the list the screen holds is open for the session:
\* its own time-in without time-out, or the legacy pair.
openToday(session) ==
  \E i \in 1..Len(timeRecords) :
     /\ timeRecords[i].date = Today
     /\ \/ session = "AM" /\ timeRecords[i].amTimeIn /\ ~timeRecords[i].amTimeOut
        \/ session = "PM" /\ timeRecords[i].pmTimeIn /\ ~timeRecords[i].pmTimeOut
        \/ timeRecords[i].timeIn /\ ~timeRecords[i].timeOut

\* C14: the AM session button is enabled iff the hour of the screen's clock is
\* before 12 or an AM record of today is open, the PM button iff the hour is
\* 12 or later or a PM record of today is open; a session open after noon
\* (before noon) stays selectable, and at least one session is selectable.
C14_SessionSelectable ==
  /\ ~sessionDisabled("AM") <=> (currentTime < 12 \/ openToday("AM"))
  /\ ~sessionDisabled("PM") <=> (currentTime >= 12 \/ openToday("PM"))
  /\ (currentTime >= 12 /\ openToday("AM")) => ~sessionDisabled("AM")
  /\ (currentTime < 12 /\ openToday("PM")) => ~sessionDisabled("PM")
  /\ ~sessionDisabled("AM") \/ ~sessionDisabled("PM")

\* C14 witness: after noon the AM session, opened in the morning, has been
\* selected with its record and its dropdown is shown.
C14_Witness ==
  /\ currentTime >= 12
  /\ openToday("AM")
  /\ showAMDropdown
  /\ activeSession = "AM"
  /\ activeTimeRecord # Null
  /\ activeTimeRecord.amTimeIn /\ ~activeTimeRecord.amTimeOut

\* C15 (as stated): once an office location is known, a step that stores an
\* accepted sample as currentLocation leaves distance and isWithinRange
\* computed from that sample and officeLocation; and isWithinRange is never
\* true while currentLocation lies farther from the office than its radius.
C15_AsStated ==
  [][/\ (currentLocation' # currentLocation /\ officeLocation # Null
           /\ officeLocation' = officeLocation)
          => /\ distance' = haversineMeters(officeLocation, currentLocation')
             /\ isWithinRange' = (distance' <= officeLocation.radius)
     /\ (isWithinRange' /\ currentLocation' # Null /\ officeLocation' # Null)
          => haversineMeters(officeLocation', currentLocation') <= officeLocation'.radius]_vars

\* C16 (as stated): a sample whose accuracy is 30 m or more is discarded
\* before the geofence is evaluated: it never becomes currentLocation.
C16_AsStated ==
  currentLocation # Null => currentLocation.accuracy < 30

\* An office fetch ended in the step and did not bring the registered office.
officeFetchFailed ==
  /\ \E i \in 1..Len(officeReqs) : officeReqs' = RemoveAt(officeReqs, i)
  /\ officeLocation' # ServerOffice

\* C17 (as stated): when the office fetch fails officeLocation becomes the
\* default office, of radius 100; a known officeLocation never becomes unknown;
\* and the accepted samples stored while the default office stands are
\* evaluated against it.
C17_AsStated ==
  [][/\ officeFetchFailed => officeLocation' = DefaultOffice /\ officeLocation'.radius = 100
     /\ officeLocation # Null => officeLocation' # Null
     /\ (officeLocation = DefaultOffice /\ officeLocation' = DefaultOffice
           /\ currentLocation' # currentLocation)
          => /\ distance' = haversineMeters(DefaultOffice, currentLocation')
             /\ isWithinRange' = (distance' <= DefaultOffice.radius)]_vars

\* C18 (as stated): once the cleanup of a run of the tracking effect has been
\* executed, the watch subscription that run started is not active, whichever
\* of the cleanup and the set-up of the subscription completed first.
C18_AsStated ==
  \A i \in 1..Len(watch) : watch[i].cleaned => ~watch[i].subscribed

LocationFailure ==
  Message("Unable to get your current location. Please check your device settings and ensure location services are enabled.", <<>>)

\* C19: a call of getCurrentLocation asks at High accuracy first and, when
\* that request fails or times out, once more at Balanced accuracy: a call in
\* flight has made one request and waits on High, or two and waits on
\* Balanced, never more; a step changes a call in flight only from the first
\* to the second, without a message; and the failure message is shown only
\* in a step that ends a call whose Balanced request failed.
C19_HighThenBalancedOnce ==
  [][/\ \A i \in 1..Len(locReqs') :
           \/ locReqs'[i].accuracy = "High" /\ locReqs'[i].requests = 1
           \/ locReqs'[i].accuracy = "Balanced" /\ locReqs'[i].requests = 2
     /\ \A i \in 1..Len(locReqs) :
           (Len(locReqs') = Len(locReqs) /\ locReqs'[i] # locReqs[i])
             => /\ locReqs[i].accuracy = "High"
                /\ locReqs'[i] = [locReqs[i] EXCEPT !.accuracy = "Balanced", !.requests = 2]
                /\ toast' # LocationFailure
                /\ currentLocation' = currentLocation
     /\ toast' = LocationFailure =>
           \E i \in 1..Len(locReqs) :
              /\ locReqs' = RemoveAt(locReqs, i)
              /\ locReqs[i].accuracy = "Balanced"
              /\ locReqs[i].requests = 2
              /\ currentLocation' = currentLocation]_vars

\* C19 witness: the failure message is shown, no position having been
\* obtained, while another call waits on its retry at Balanced accuracy.
C19_Witness ==
  /\ toast = LocationFailure
  /\ currentLocation = Null
  /\ \E i \in 1..Len(locReqs) : locReqs[i].accuracy = "Balanced" /\ locReqs[i].requests = 2

OffsetRejections == {"no_selection", "bad_format", "no_date", "no_record", "past_makeup"}
offsetReturned == lastCall.kind = "offset" /\ lastCall.out \in OffsetRejections \cup {"no_token"}
undertimeDateKnown ==
  /\ offsetForm.undertimeDate \in offsetForm.availableDates
  /\ \E i \in 1..Len(timeRecords) : formatRecordDate(timeRecords[i].date) = offsetForm.undertimeDate
makeupDateMalformed ==
  offsetForm.makeupDate # NoDate /\ offsetForm.makeupDate.format # "YYYY-MM-DD"
makeupDatePast ==
  offsetForm.makeupDate # NoDate /\ ~makeupDateMalformed /\ offsetForm.makeupDate.day < Today

\* C21 (as stated): the validation of an offset stops at the first rule that
\* fails, in the order: undertimeDate exists among the records' dates, the
\* format of makeupDate, makeupDate not before today; an unknown undertimeDate
\* with a malformed makeupDate reports the date-must-exist error.
C21_AsStated ==
  offsetReturned =>
     IF ~undertimeDateKnown THEN lastCall.out \in {"no_date", "no_record"}
     ELSE IF makeupDateMalformed THEN lastCall.out = "bad_format"
     ELSE IF makeupDatePast THEN lastCall.out = "past_makeup"
     ELSE lastCall.out = "no_token"

\* C21 (amended): the validation of an offset stops at the first rule that
\* fails, in the order: the format of makeupDate, undertimeDate exists among
\* the dates of the form and of the records, makeupDate not before today; an
\* unknown undertimeDate with a malformed makeupDate reports the format error.
C21_FormatBeforeExistence ==
  offsetReturned =>
     /\ IF makeupDateMalformed THEN lastCall.out = "bad_format"
        ELSE IF ~undertimeDateKnown THEN lastCall.out \in {"no_date", "no_record"}
        ELSE IF makeupDatePast THEN lastCall.out = "past_makeup"
        ELSE lastCall.out = "no_token"
     /\ lastCall.out = "bad_format" =>
           /\ lastCall.checks = <<"selected", "format">>
           /\ toast = Message("Makeup date must be in YYYY-MM-DD format", <<>>)
     /\ lastCall.out = "no_date" =>
           /\ lastCall.checks = <<"selected", "format", "exists">>
           /\ toast = Message("Undertime date must exist in daily records", <<>>)
     /\ lastCall.out = "past_makeup" =>
           /\ lastCall.checks = <<"selected", "format", "exists", "record", "makeup">>
           /\ toast = Message("Makeup date must be today or a future date", <<>>)

\* C21 witness: a submission with an unknown undertimeDate and a malformed
\* makeupDate returned on the format rule.
C21_Witness ==
  /\ offsetReturned
  /\ ~undertimeDateKnown
  /\ makeupDateMalformed
  /\ lastCall.out = "bad_format"

\* C22: a submission whose undertimeDate has no matching record, or whose
\* makeupDate is provided and malformed, or provided and before today, returns
\* with an error and without a request (nothing is sent, loading and the
\* calls in progress are as before); a submission with an existing
\* undertimeDate and no makeupDate is accepted and sends exactly one request,
\* the POST of the offset.
C22_RejectedBeforeRequest ==
  [][PressOffsetSave =>
       /\ (~undertimeDateKnown \/ makeupDateMalformed \/ makeupDatePast) =>
             /\ lastCall'.kind = "offset"
             /\ lastCall'.out \in OffsetRejections
             /\ lastCall'.posts = 0
             /\ lastCall'.gets = 0
             /\ lastCall'.request = Null
             /\ toast' = lastCall'.message
             /\ toast' # NoMessage
             /\ UNCHANGED <<calls, fetches, server, loading>>
       /\ (undertimeDateKnown /\ offsetForm.makeupDate = NoDate) =>
             /\ lastCall' = NoCall
             /\ Len(calls') = Len(calls) + 1
             /\ LET c == calls'[Len(calls')]
                IN /\ c.kind = "offset"
                   /\ c.pc = "post"
                   /\ c.posts = 1
                   /\ c.gets = 0
                   /\ c.request.url = "offset"
             /\ Cardinality({k \in 1..Len(calls') : calls'[k].pc = "post"})
                  = Cardinality({k \in 1..Len(calls) : calls[k].pc = "post"}) + 1]_vars

\* C22 witness: a submission with an existing undertimeDate and yesterday as
\* makeupDate returned on the makeup-date rule, nothing sent.
C22_Witness ==
  /\ offsetReturned
  /\ undertimeDateKnown
  /\ makeupDatePast
  /\ lastCall.out = "past_makeup"
  /\ lastCall.posts = 0
  /\ calls = <<>>

\* C23: the POST of an accepted submission is addressed to the id of the
\* first record whose date is the undertimeDate of the form, whatever record
\* the form was opened on, and its body holds the undertimeDate, undertime and
\* makeup of the form and its makeupDate, left out when it is empty.
C23_AddressedByUndertimeDate ==
  [][(PressOffsetSave /\ Len(calls') = Len(calls) + 1) =>
       LET request == calls'[Len(calls')].request
           dated == {i \in 1..Len(timeRecords) :
                       formatRecordDate(timeRecords[i].date) = offsetForm.undertimeDate}
       IN /\ dated # {}
          /\ request.id = timeRecords[CHOOSE i \in dated : \A j \in dated : i <= j]._id
          /\ DOMAIN request = {"url", "id", "undertimeDate", "undertime", "makeup", "makeupDate"}
          /\ request.url = "offset"
          /\ request.undertimeDate = offsetForm.undertimeDate
          /\ request.undertime = offsetForm.undertime
          /\ request.makeup = offsetForm.makeup
          /\ request.makeupDate = IF offsetForm.makeupDate = NoDate THEN Null
                                  ELSE offsetForm.makeupDate]_vars

\* C23 witness: the form opened on today's record sent the offset of
\* yesterday, without a makeupDate, to yesterday's record.
C23_Witness ==
  \E k \in 1..Len(calls) :
     /\ calls[k].kind = "offset"
     /\ calls[k].pc = "post"
     /\ offsetForm.selectedRecord # Null
     /\ offsetForm.selectedRecord.date = Today
     /\ calls[k].request.undertimeDate = formatRecordDate(Yesterday)
     /\ calls[k].request.id = YesterdayRecord._id
     /\ calls[k].request.makeupDate = Null

\* The hours a slider of the form can be set to: 0 to 8 in steps of 0.25.
sliderHours == {hours \in MinimumValue..MaximumValue : (hours - MinimumValue) % Step = 0}

\* C24 (as stated): the undertime and the makeup of every offset request sent
\* lie in [0, 8] and are multiples of 0.25, also when the form was filled from
\* the values of an existing record.
C24_AsStated ==
  \A k \in 1..Len(calls) :
     (calls[k].kind = "offset" /\ calls[k].pc = "post") =>
        /\ calls[k].request.undertime \in sliderHours
        /\ calls[k].request.makeup \in sliderHours

\* ------------------------------------------------------------- geofence
\* C25: for the office and radius of the screen, isWithinRange is true when
\* the distance computed is at most the radius, the radius itself included,
\* and false when it is larger.
C25_WithinIffAtMostRadius ==
  distance # NoDistance => (isWithinRange <=> distance <= officeLocation.radius)

\* C25 witness: a sample exactly at the radius, 100 m from the office, is
\* within range.
C25_Witness ==
  /\ currentLocation # Null
  /\ distance = officeLocation.radius
  /\ distance = haversineMeters(officeLocation, currentLocation)
  /\ isWithinRange

\* ------------------------------------------------------------ the sliders
\* C27 (as stated): once the sliding of a slider has completed with a value,
\* that value is the one the parent holds and no timeout of the drag is left
\* to report a value after it.
C27_AsStated ==
  \A slider \in Sliders :
     (offsetForm.showOffsetModal /\ ~offsetForm.sliding[slider]) =>
        offsetForm.timeouts[slider] = NoTimeout

\* ------------------------------------------------------------- sessions
\* getSessionTimeIn: the time-in of a session on a record is set.
sessionTimeIn(record, session) ==
  IF session = "AM" THEN record.amTimeIn \/ record.timeIn
  ELSE record.pmTimeIn \/ record.timeIn

\* C28 (as stated): whatever the refreshes, the presses of the session buttons
\* and the time actions, an activeTimeRecord that is not null is a record of
\* today open for the activeSession selected; and a time-out request names a
\* session whose time-in is set on the record it addresses.
C28_AsStated ==
  /\ activeTimeRecord # Null =>
        /\ isTodayRecord(activeTimeRecord)
        /\ isActiveFor(activeTimeRecord, activeSession)
  /\ \A c \in CallsOf("timeOut") :
        c.posts > 0 => sessionTimeIn(c.record, c.request.session)

\* ---------------------------------------------------------- concurrency
\* The calls of handleTimeIn and handleTimeOut whose POST is in flight.
postsInFlight ==
  {k \in 1..Len(calls) : calls[k].kind \in {"timeIn", "timeOut"} /\ calls[k].pc = "post"}

\* C29 (as stated): at most one time-in or time-out request is in flight at
\* any moment, also when a handler is invoked again before its first
\* invocation has finished.
C29_AsStated == Cardinality(postsInFlight) <= 1

\* C30 (as stated): once no fetch of the records and no handler call is in
\* progress, the records list is the response to the request issued last. The
\* service changes its records only in the step that issues a new fetch, so
\* that response is the list the service holds (or a failure, which leaves
\* the empty list), and activeTimeRecord is resolved from it.
C30_AsStated ==
  (fetches = <<>> /\ calls = <<>> /\ timeRecords # <<>>) =>
     /\ timeRecords = sortByDateDesc(server)
     /\ activeTimeRecord # Null =>
           \E i \in 1..Len(timeRecords) : timeRecords[i] = activeTimeRecord

====
